---- MODULE Spec2Model ----
(***************************************************************************)
(* Model of the interval-splitting, reassembly and subtitle-timeline code  *)
(* of the Multilingual VoiceOver repository:                               *)
(*   app/utils/chunk_structure.py, app/models/Merger.py,                   *)
(*   app/experiments/splitMerge.py, app/postprocessing/integrating_srtfile *)
(*                                                                         *)
(* Representation.  A Python str is a sequence of one-character strings,   *)
(* so formatting, splitting and parsing are modelled character by          *)
(* character.  A Python float number of seconds is a fixed-point integer   *)
(* count of milliseconds, so flooring to whole seconds is visible.         *)
(***************************************************************************)
EXTENDS Integers, Sequences, FiniteSets, TLC

VARIABLES
    \* --- TimeUtils / convert_srt_time_to_ass exercised on their own
    t_pc,       \* last TimeUtils operation applied: "idle", "hms", "sec", "ass"
    t_sec,      \* argument of seconds_to_hms (milliseconds), -1 before any call
    t_hms,      \* result of seconds_to_hms, <<>> before any call
    t_back,     \* result of time_to_seconds (milliseconds), -1 before any call
    t_srt,      \* argument of convert_srt_time_to_ass: [h, m, s, ms, str]
    t_ass,      \* result of convert_srt_time_to_ass, <<>> before any call
    \* --- manifest-driven partitioning and merge plan
    manifest,           \* the labeled-chunk JSON: sequence of records
    probe_duration,     \* probe['format']['duration'] of the media (milliseconds)
    m_pc,               \* position of the partition/merge pipeline
    song_segments,      \* result of extract_segments_by_label
    video_duration,     \* result of get_video_duration ("HH:MM:SS"), <<>> before
    story_segments,     \* result of get_story_segments
    all_segments_sorted,\* merge plan of Merger.py / splitMerge.py
    extracted_segments, \* VideoProcessor.extracted_segments of chunk_structure.py
    \* --- subtitle timeline
    srt_blocks,         \* the blocks of the SRT file
    ass_events,         \* Dialogue lines written to the ASS file
    a_pc,               \* "idle" or "written"
    \* --- format validation
    clips,              \* per video path: [exists, probe_ok, info]
    v_pc,               \* "idle", "ok", "FileNotFoundError", "RuntimeError", "ValueError"
    v_probed,           \* indices of the clips handed to get_video_info, in order
    v_baseline,         \* baseline tuple of validate_video_formats, <<>> for None
    \* --- FFmpegHandler.extract_segments of chunk_structure.py, call by call
    x_segments,         \* segments argument of FFmpegHandler.extract_segments
    x_bad,              \* (start, end) pairs on which the ffmpeg cut exits with an error
    x_pc,               \* outcome of the last call: "idle", "returned", "ValueError", "ffmpeg.Error"
    x_suffix,           \* lang_suffix of the last call
    x_outputs,          \* the outputs list when the last call returned or raised
    x_cuts,             \* ffmpeg invocations of the last call: [i, file]
    x_dir,              \* whether output_dir exists
    x_disk,             \* the clip files in output_dir
    x_prev,             \* [pc, suffix, disk]: x_pc, x_suffix and x_disk before the last call
    x_runs,             \* number of calls made
    \* --- fastVars
    f_paths,            \* video_paths argument of merge_videos_ffmpeg_fast: [name, exists, probe_ok, info]
    f_pc,               \* position in merge_videos_ffmpeg_fast, or the exception it raised
    f_sorted,           \* video_paths after natsorted
    f_probed,           \* positions of f_sorted handed to get_video_info, in order
    f_written,          \* whether concat_list.txt has been written
    f_lines,            \* the file names listed in concat_list.txt
    f_copy,             \* invocations of ffmpeg -f concat -c copy
    f_output,           \* how output_path was produced: "none" or "copy"
    \* --- jsonVars
    j_file,             \* the manifest file as read with open and json.load: [status, data]
    j_pc,               \* outcome of the last manifest-reading call
    j_label,            \* label argument of the last extract_segments_by_label call
    j_ret,              \* value returned by the last extract_segments_by_label call
    j_chunks,           \* value returned by _parse_json_chunks
    j_dirs,             \* directories made by create_structure
    \* --- procVars
    p_op,               \* last method called on the VideoProcessor: "none", "extract", "concatenate"
    p_pc,               \* outcome of the last call
    p_extracted,        \* self.extracted_segments
    p_before,           \* self.extracted_segments before the last call
    p_disk,             \* clip files under the song and story directories
    p_completed,        \* clip lists returned by the extract_segments calls that completed
    p_concat,           \* video_list of the last concat_videos invocation
    \* --- batchVars
    b_tasks,            \* per task of the batch: TRUE when its own work succeeds
    b_kind,             \* the batch operation called: "extract_audio_batch" or "split_video_fast"
    b_pc,               \* caller position: "idle", "collect", "unwinding", "returned", "raised"
    b_fut,              \* per submitted future: "pending", "done" or "failed"
    b_out,              \* tasks whose output file was produced
    b_handled,          \* futures taken from as_completed by extract_audio_batch
    b_logged,           \* futures whose exception extract_audio_batch logged
    b_next,             \* the future split_video_fast waits for next
    \* --- burnVars
    u_op,               \* the entry point invoked: create_ass_file or burn_subtitles
    u_lang,             \* its language argument
    u_pc,               \* how the invocation ended
    u_srt,              \* the SRT file at subtitle_path
    u_ass,              \* the timeline file at ass_path
    u_before,           \* the timeline file before the invocation
    u_burn,             \* exit of the ffmpeg run that burns the timeline in
    \* --- treeVars
    j_src,              \* which of the movie and the manifest lie at their upload paths
    j_calls,            \* invocations of create_structure so far
    j_before,           \* outcome, tree and upload paths before the latest invocation
    \* --- toolVars
    b_probe,            \* exit of each ffmpeg.probe run of split_video_fast, in order
    \* --- msgVars
    v_error,            \* clip, tuple and baseline named by the ValueError of validate_video_formats
    \* --- splitVars
    s_duration,         \* clip.duration / float(probe["format"]["duration"])
    s_length,           \* segment_length
    s_fast,             \* how the task building of split_video_fast ended
    s_tasks,            \* tasks of split_video_fast: start, end, length, part number
    s_pc,               \* position of video_splitter
    s_start,            \* start_time
    s_end,              \* end_time
    s_index,            \* index
    s_parts             \* parts written by video_splitter: start, end, part number

vars == <<t_pc, t_sec, t_hms, t_back, t_srt, t_ass,
          manifest, probe_duration, m_pc, song_segments, video_duration,
          story_segments, all_segments_sorted, extracted_segments,
          srt_blocks, ass_events, a_pc,
          clips, v_pc, v_probed, v_baseline,
          x_segments, x_bad, x_pc, x_suffix, x_outputs, x_cuts, x_dir, x_disk,
          x_prev, x_runs,
          f_paths, f_pc, f_sorted, f_probed, f_written, f_lines, f_copy, f_output,
          j_file, j_pc, j_label, j_ret, j_chunks, j_dirs,
          p_op, p_pc, p_extracted, p_before, p_disk, p_completed, p_concat,
          b_tasks, b_kind, b_pc, b_fut, b_out, b_handled, b_logged, b_next,
          u_op, u_lang, u_pc, u_srt, u_ass, u_before, u_burn,
          j_src, j_calls, j_before,
          b_probe,
          v_error,
          s_duration, s_length, s_fast, s_tasks, s_pc, s_start, s_end, s_index, s_parts>>

timeVars  == <<t_pc, t_sec, t_hms, t_back, t_srt, t_ass>>
mergeVars == <<manifest, probe_duration, m_pc, song_segments, video_duration,
               story_segments, all_segments_sorted, extracted_segments>>
assVars   == <<srt_blocks, ass_events, a_pc>>
validVars == <<clips, v_pc, v_probed, v_baseline>>
cutVars   == <<x_segments, x_bad, x_pc, x_suffix, x_outputs, x_cuts, x_dir,
               x_disk, x_prev, x_runs>>
fastVars == <<f_paths, f_pc, f_sorted, f_probed, f_written, f_lines, f_copy, f_output>>
jsonVars == <<j_file, j_pc, j_label, j_ret, j_chunks, j_dirs>>
procVars == <<p_op, p_pc, p_extracted, p_before, p_disk, p_completed, p_concat>>
batchVars == <<b_tasks, b_kind, b_pc, b_fut, b_out, b_handled, b_logged, b_next>>
burnVars == <<u_op, u_lang, u_pc, u_srt, u_ass, u_before, u_burn>>
treeVars == <<j_src, j_calls, j_before>>
toolVars == <<b_probe>>
msgVars == <<v_error>>
splitVars == <<s_duration, s_length, s_fast, s_tasks, s_pc, s_start, s_end, s_index, s_parts>>

----------------------------------------------------------------------------
(* Bounds of the model *)

MaxSeconds == 130      \* seconds_to_hms is applied to 0..MaxSeconds and to the values beside hour marks
MaxRecords == 2        \* records in a manifest
MaxCues    == 2        \* blocks in an SRT file
MaxClips   == 3        \* video paths handed to validate_video_formats
MaxSegs    == 2        \* segments handed to FFmpegHandler.extract_segments
MaxRuns    == 2        \* calls of FFmpegHandler.extract_segments in a row
MaxPaths   == 2        \* video paths handed to merge_videos_ffmpeg_fast
MaxTasks   == 3        \* tasks of a batch handed to a worker pool
MaxCalls   == 2        \* invocations of create_structure in a row
MaxParts   == 12       \* passes of the loop of video_splitter that are followed

----------------------------------------------------------------------------
(* Python str primitives *)

Digits == <<"0", "1", "2", "3", "4", "5", "6", "7", "8", "9">>

\* str(n) / f"{n}" for n >= 0
RECURSIVE str(_)
str(n) == IF n < 10 THEN <<Digits[n + 1]>>
          ELSE str(n \div 10) \o <<Digits[(n % 10) + 1]>>

\* f"{n:02}": minimum width two, zero padded
fmt02(n) == IF Len(str(n)) < 2 THEN <<"0">> \o str(n) ELSE str(n)

\* s.split(sep) for a one-character separator
RECURSIVE split(_, _)
split(s, sep) ==
    IF \A i \in 1..Len(s) : s[i] # sep
    THEN <<s>>
    ELSE LET i == CHOOSE k \in 1..Len(s) :
                     s[k] = sep /\ \A j \in 1..(k - 1) : s[j] # sep
         IN <<SubSeq(s, 1, i - 1)>> \o split(SubSeq(s, i + 1, Len(s)), sep)

\* int(s) / float(s) of a string of decimal digits
RECURSIVE float(_)
float(s) ==
    IF Len(s) = 0 THEN 0
    ELSE float(SubSeq(s, 1, Len(s) - 1)) * 10
         + (CHOOSE d \in 0..9 : Digits[d + 1] = s[Len(s)])

\* s[:2].ljust(2, '0')
first2_ljust(s) ==
    LET cut == SubSeq(s, 1, IF Len(s) < 2 THEN Len(s) ELSE 2)
    IN IF Len(cut) = 0 THEN <<"0", "0">>
       ELSE IF Len(cut) = 1 THEN cut \o <<"0">>
       ELSE cut

----------------------------------------------------------------------------
(* TimeUtils *)

\* seconds_to_hms whose minutes field forgets the "% 3600"
seconds_to_hms_nomod(seconds) ==
    LET hours   == seconds \div 3600000
        minutes == seconds \div 60000
        secs    == (seconds % 60000) \div 1000
    IN fmt02(hours) \o <<":">> \o fmt02(minutes) \o <<":">> \o fmt02(secs)

\* hours, minutes and seconds are floored by int()
seconds_to_hms(seconds) ==
    LET hours   == seconds \div 3600000
        minutes == (seconds % 3600000) \div 60000
        secs    == (seconds % 60000) \div 1000
    IN fmt02(hours) \o <<":">> \o fmt02(minutes) \o <<":">> \o fmt02(secs)

time_to_seconds(time_str) ==
    LET p == split(time_str, ":")
    IN (float(p[1]) * 3600 + float(p[2]) * 60 + float(p[3])) * 1000

\* convert_srt_time_to_ass rounding milliseconds to the nearest centisecond
convert_srt_time_to_ass_round(srt_time) ==
    LET hasComma  == \E i \in 1..Len(srt_time) : srt_time[i] = ","
        parts     == split(srt_time, ",")
        time_part == IF hasComma THEN parts[1] ELSE srt_time
        cs        == IF hasComma THEN ((float(parts[2]) + 5) \div 10) % 100 ELSE 0
        hms       == split(time_part, ":")
    IN str(float(hms[1])) \o <<":">> \o hms[2] \o <<":">> \o hms[3]
       \o <<".">> \o fmt02(cs)

convert_srt_time_to_ass(srt_time) ==
    LET hasComma  == \E i \in 1..Len(srt_time) : srt_time[i] = ","
        parts     == split(srt_time, ",")
        time_part == IF hasComma THEN parts[1] ELSE srt_time
        ms_part   == IF hasComma THEN first2_ljust(parts[2]) ELSE <<"0", "0">>
        hms       == split(time_part, ":")
        hours     == str(float(hms[1]))
    IN hours \o <<":">> \o hms[2] \o <<":">> \o hms[3] \o <<".">> \o ms_part

----------------------------------------------------------------------------
(* Inputs of the TimeUtils operations *)

Sec(n) == n * 1000

\* whole and half seconds: below MaxSeconds, around the hour marks, beyond 99 hours
SecondsInputs ==
    LET whole == (0..MaxSeconds) \cup {3599, 3600, 3661, 7325, 86399, 359999, 360000}
    IN {Sec(s) + f : s \in whole, f \in {0, 500}}

\* f"{n:03}"
fmt03(n) == IF n < 10 THEN <<"0", "0">> \o str(n)
            ELSE IF n < 100 THEN <<"0">> \o str(n) ELSE str(n)

\* an SRT timestamp "HH:MM:SS,mmm", or "HH:MM:SS" when ms = -1
SrtTime(h, m, s, ms) ==
    fmt02(h) \o <<":">> \o fmt02(m) \o <<":">> \o fmt02(s)
    \o (IF ms < 0 THEN <<>> ELSE <<",">> \o fmt03(ms))

SrtInputs ==
    {[h |-> h, m |-> m, s |-> s, ms |-> ms, str |-> SrtTime(h, m, s, ms)] :
        h \in {0, 1, 10}, m \in {0, 2, 59}, s \in {0, 1, 3, 59},
        ms \in {-1, 0, 9, 500, 999}}

----------------------------------------------------------------------------
(* TimeUtils operations as actions *)

SecondsToHms ==
    \E s \in SecondsInputs :
        /\ t_pc = "idle"
        /\ t_pc' = "hms"
        /\ t_sec' = s
        /\ t_hms' = seconds_to_hms(s)
        /\ t_back' = -1
        /\ UNCHANGED <<t_srt, t_ass>>
        /\ UNCHANGED <<mergeVars, assVars, validVars, cutVars, fastVars, jsonVars, procVars, batchVars, burnVars, treeVars, toolVars, msgVars, splitVars>>

TimeToSeconds ==
    /\ t_pc = "hms"
    /\ t_pc' = "sec"
    /\ t_back' = time_to_seconds(t_hms)
    /\ UNCHANGED <<t_sec, t_hms, t_srt, t_ass>>
    /\ UNCHANGED <<mergeVars, assVars, validVars, cutVars, fastVars, jsonVars, procVars, batchVars, burnVars, treeVars, toolVars, msgVars, splitVars>>

ConvertSrtTimeToAss ==
    \E x \in SrtInputs :
        /\ t_pc = "idle"
        /\ t_pc' = "ass"
        /\ t_srt' = x
        /\ t_ass' = convert_srt_time_to_ass(x.str)
        /\ UNCHANGED <<t_sec, t_hms, t_back>>
        /\ UNCHANGED <<mergeVars, assVars, validVars, cutVars, fastVars, jsonVars, procVars, batchVars, burnVars, treeVars, toolVars, msgVars, splitVars>>

----------------------------------------------------------------------------
(* SegmentExtractor, SegmentLogic, FFmpegHandler *)

\* "00:00:00"
hms0 == <<"0", "0", ":", "0", "0", ":", "0", "0">>

\* extract_segments_by_label numbering the segments it returns 1, 2, ...
extract_segments_by_label_renumbered(data, label) ==
    LET sel == SelectSeq(data, LAMBDA entry : entry.label = label)
    IN [i \in 1..Len(sel) |->
            [id    |-> [sel[i].id EXCEPT !.kind = "int", !.num = i, !.text = <<>>],
             label |-> label,
             start |-> seconds_to_hms(sel[i].start),
             end   |-> seconds_to_hms(sel[i].end)]]

\* chunk_structure.py: the records of one label, in manifest order, with id
extract_segments_by_label(data, label) ==
    LET sel == SelectSeq(data, LAMBDA entry : entry.label = label)
    IN [i \in 1..Len(sel) |->
            [id    |-> sel[i].id,
             label |-> label,
             start |-> seconds_to_hms(sel[i].start),
             end   |-> seconds_to_hms(sel[i].end)]]

\* Merger.py: the same reader, keeping start and end only
Merger_extract_segments_by_label(data, label) ==
    LET sel == SelectSeq(data, LAMBDA entry : entry.label = label)
    IN [i \in 1..Len(sel) |->
            [start |-> seconds_to_hms(sel[i].start),
             end   |-> seconds_to_hms(sel[i].end)]]

\* FFmpegHandler.get_video_duration
get_video_duration(duration) == seconds_to_hms(duration)

\* the for loop of get_story_segments: state [story_segments, prev_end]
RECURSIVE story_loop(_, _, _)
story_loop(song, i, st) ==
    IF i > Len(song) THEN st
    ELSE LET seg == song[i]
             out == IF st.prev_end # seg.start
                    THEN Append(st.story_segments,
                                [start |-> st.prev_end, end |-> seg.start])
                    ELSE st.story_segments
         IN story_loop(song, i + 1,
                       [story_segments |-> out, prev_end |-> seg.end])

\* get_story_segments without the test that guards the final segment
get_story_segments_always_tail(song, duration) ==
    LET st == story_loop(song, 1, [story_segments |-> <<>>, prev_end |-> hms0])
    IN Append(st.story_segments, [start |-> st.prev_end, end |-> duration])

\* get_story_segments whose final segment starts at zero, not at prev_end
get_story_segments_stale_prev(song, duration) ==
    LET st == story_loop(song, 1, [story_segments |-> <<>>, prev_end |-> hms0])
    IN IF st.prev_end # duration
       THEN Append(st.story_segments, [start |-> hms0, end |-> duration])
       ELSE st.story_segments

get_story_segments(song, duration) ==
    LET st == story_loop(song, 1, [story_segments |-> <<>>, prev_end |-> hms0])
    IN IF st.prev_end # duration
       THEN Append(st.story_segments, [start |-> st.prev_end, end |-> duration])
       ELSE st.story_segments

\* sorted(s, key=...): stable, keys are tuples of integers compared in order
TupleLess(a, b) ==
    \E i \in 1..Len(a) : a[i] < b[i] /\ \A j \in 1..(i - 1) : a[j] = b[j]

sorted(s, key) ==
    LET rank(i) == Cardinality({j \in 1..Len(s) :
                        \/ TupleLess(key[j], key[i])
                        \/ (key[j] = key[i] /\ j < i)}) + 1
    IN [r \in 1..Len(s) |-> s[CHOOSE i \in 1..Len(s) : rank(i) = r]]

\* Merger.py FFmpegHandler.extract_segments: one clip per segment
Merger_extract_segments(segments, output_dir) ==
    [i \in 1..Len(segments) |->
        [file  |-> <<output_dir, segments[i].start, segments[i].end>>,
         start |-> segments[i].start,
         end   |-> segments[i].end]]

\* chunk_structure.py FFmpegHandler.extract_segments: one clip per segment
FFmpeg_extract_segments(segments, output_dir, lang_suffix) ==
    [i \in 1..Len(segments) |->
        [file  |-> <<output_dir, segments[i].id, segments[i].start,
                     segments[i].end, lang_suffix>>,
         id    |-> segments[i].id,
         start |-> segments[i].start,
         end   |-> segments[i].end]]

\* Merger.py lines 190-191: story clips then song clips, sorted by start
merge_chronological(story_clips, song_clips) ==
    LET all_segments == story_clips \o song_clips
    IN sorted(all_segments,
              [i \in 1..Len(all_segments) |->
                    <<time_to_seconds(all_segments[i].start)>>])

\* lines 327-331 without the sort: song clips then story clips
merge_unsorted(song_clips, story_clips) == song_clips \o story_clips

\* chunk_structure.py lines 327-331: song clips then story clips, by (id, start)
merge_by_id(song_clips, story_clips) ==
    LET all_segments == song_clips \o story_clips
    IN sorted(all_segments,
              [i \in 1..Len(all_segments) |->
                    <<all_segments[i].id,
                      time_to_seconds(all_segments[i].start)>>])

----------------------------------------------------------------------------
(* Manifests and media durations the pipeline is run on *)

\* numeric (start, end) of a record, in milliseconds: two adjacent spans, a
\* span shorter than a second, and a span overlapping the others
ManifestSpans == {<<0, 10000>>, <<10000, 20000>>, <<10000, 10500>>, <<0, 20000>>}
Labels == {"song", "voice"}
Ids == {1, 2}

\* a manifest record: numeric start and end in seconds, end after start
Records ==
    {[id |-> i, label |-> l, start |-> sp[1], end |-> sp[2]] :
        i \in Ids, l \in Labels, sp \in ManifestSpans}

Manifests == UNION {[1..n -> Records] : n \in 0..MaxRecords}

ProbeDurations == {20000, 60500}

----------------------------------------------------------------------------
(* The partition / merge pipeline *)

\* SegmentExtractor.extract_segments_by_label(label)
ExtractSegmentsByLabel ==
    \E label \in Labels :
        /\ m_pc = "start"
        /\ m_pc' = "labeled"
        /\ song_segments' = Merger_extract_segments_by_label(manifest, label)
        /\ UNCHANGED <<manifest, probe_duration, video_duration, story_segments,
                       all_segments_sorted, extracted_segments>>
        /\ UNCHANGED <<timeVars, assVars, validVars, cutVars, fastVars, jsonVars, procVars, batchVars, burnVars, treeVars, toolVars, msgVars, splitVars>>

\* FFmpegHandler.get_video_duration(path)
GetVideoDuration ==
    /\ m_pc = "labeled"
    /\ m_pc' = "duration"
    /\ video_duration' = get_video_duration(probe_duration)
    /\ UNCHANGED <<manifest, probe_duration, song_segments, story_segments,
                   all_segments_sorted, extracted_segments>>
    /\ UNCHANGED <<timeVars, assVars, validVars, cutVars, fastVars, jsonVars, procVars, batchVars, burnVars, treeVars, toolVars, msgVars, splitVars>>

\* SegmentLogic.get_story_segments(song_segments, video_duration)
GetStorySegments ==
    /\ m_pc = "duration"
    /\ m_pc' = "story"
    /\ story_segments' = get_story_segments(song_segments, video_duration)
    /\ UNCHANGED <<manifest, probe_duration, song_segments, video_duration,
                   all_segments_sorted, extracted_segments>>
    /\ UNCHANGED <<timeVars, assVars, validVars, cutVars, fastVars, jsonVars, procVars, batchVars, burnVars, treeVars, toolVars, msgVars, splitVars>>

\* extraction of both partitions and the chronological sort
MergeChronological ==
    /\ m_pc = "story"
    /\ m_pc' = "merged"
    /\ all_segments_sorted' =
            merge_chronological(Merger_extract_segments(story_segments, "stories"),
                                Merger_extract_segments(song_segments, "songs"))
    /\ UNCHANGED <<manifest, probe_duration, song_segments, video_duration,
                   story_segments, extracted_segments>>
    /\ UNCHANGED <<timeVars, assVars, validVars, cutVars, fastVars, jsonVars, procVars, batchVars, burnVars, treeVars, toolVars, msgVars, splitVars>>

\* Merger.py VideoProcessor.process: self.subtitle_video is never assigned,
\* so the read at step 2 raises AttributeError after step 1 has run
MergerProcess ==
    \E label \in Labels :
        /\ m_pc = "start"
        /\ m_pc' = "AttributeError"
        /\ UNCHANGED <<manifest, probe_duration, song_segments, video_duration,
                       story_segments, all_segments_sorted, extracted_segments>>
        /\ UNCHANGED <<timeVars, assVars, validVars, cutVars, fastVars, jsonVars, procVars, batchVars, burnVars, treeVars, toolVars, msgVars, splitVars>>

\* chunk_structure.py VideoProcessor.extract_segments(label, lang_suffix)
ExtractSegments ==
    \E label \in Labels :
        /\ m_pc = "start"
        /\ m_pc' = "extracted"
        /\ video_duration' = get_video_duration(probe_duration)
        /\ extracted_segments' =
                merge_by_id(
                    FFmpeg_extract_segments(
                        extract_segments_by_label(manifest, "song"),
                        "song_files", "hi"),
                    FFmpeg_extract_segments(
                        extract_segments_by_label(manifest, "voice"),
                        "story_files", "hi"))
        /\ UNCHANGED <<manifest, probe_duration, song_segments, story_segments,
                       all_segments_sorted>>
        /\ UNCHANGED <<timeVars, assVars, validVars, cutVars, fastVars, jsonVars, procVars, batchVars, burnVars, treeVars, toolVars, msgVars, splitVars>>

\* chunk_structure.py VideoProcessor.concatenate_segments
ConcatenateSegments ==
    /\ m_pc = "extracted"
    /\ m_pc' = IF extracted_segments = <<>> THEN "ValueError" ELSE "concatenated"
    /\ UNCHANGED <<manifest, probe_duration, song_segments, video_duration,
                   story_segments, all_segments_sorted, extracted_segments>>
    /\ UNCHANGED <<timeVars, assVars, validVars, cutVars, fastVars, jsonVars, procVars, batchVars, burnVars, treeVars, toolVars, msgVars, splitVars>>

----------------------------------------------------------------------------
(* Subtitle timeline: create_ass_file *)

\* "0:00:00.00"
ass0 == <<"0", ":", "0", "0", ":", "0", "0", ".", "0", "0">>

\* keys of LANGUAGE_CONFIG
LANGUAGE_CONFIG_keys ==
    {"hi", "kn", "ta", "ml", "gu", "mr", "es", "ms", "id", "bho", "ar", "sw", "si", "te"}

\* the for loop over blocks: state [events, previous_end].  A block is
\* [lines, start, end]: its number of non-blank lines and the two timestamps of
\* its timing line; the visible event carries the block's index as its text.
RECURSIVE ass_loop(_, _, _)
ass_loop(blocks, i, st) ==
    IF i > Len(blocks) THEN st
    ELSE IF blocks[i].lines < 3 THEN ass_loop(blocks, i + 1, st)
    ELSE LET start  == convert_srt_time_to_ass(blocks[i].start)
             end    == convert_srt_time_to_ass(blocks[i].end)
             filled == IF st.previous_end # start
                       THEN Append(st.events,
                                   [start |-> st.previous_end, end |-> start,
                                    filler |-> TRUE, block |-> 0])
                       ELSE st.events
         IN ass_loop(blocks, i + 1,
                     [events |-> Append(filled,
                                    [start |-> start, end |-> end,
                                     filler |-> FALSE, block |-> i]),
                      previous_end |-> end])

\* create_ass_file whose previous_end starts at the first cue's start
create_ass_file_events_no_lead(blocks) ==
    LET kept == SelectSeq(blocks, LAMBDA b : b.lines >= 3)
        init == IF kept = <<>> THEN ass0
                ELSE convert_srt_time_to_ass(kept[1].start)
    IN ass_loop(blocks, 1, [events |-> <<>>, previous_end |-> init]).events

\* create_ass_file that never writes a filler
create_ass_file_events_no_filler(blocks) ==
    LET kept == SelectSeq(blocks, LAMBDA b : b.lines >= 3)
    IN [i \in 1..Len(kept) |->
            [start |-> convert_srt_time_to_ass(kept[i].start),
             end |-> convert_srt_time_to_ass(kept[i].end),
             filler |-> FALSE,
             block |-> CHOOSE k \in 1..Len(blocks) :
                          Len(SelectSeq(SubSeq(blocks, 1, k),
                                        LAMBDA b : b.lines >= 3)) = i
                          /\ blocks[k].lines >= 3]]

\* the Dialogue lines create_ass_file writes
create_ass_file_events(blocks) ==
    ass_loop(blocks, 1, [events |-> <<>>, previous_end |-> ass0]).events

CueTimes == {0, 5, 1000, 2000, 2005, 3000, 4000}

SrtOfMs(t) == SrtTime(0, 0, t \div 1000, t % 1000)

\* SRT blocks: index line, timing line and one text line, end >= start; and a
\* block without a text line, which is skipped before its timing line is read
Blocks ==
    {[lines |-> 3, start |-> SrtOfMs(p[1]), end |-> SrtOfMs(p[2])] :
        p \in {q \in CueTimes \X CueTimes : q[1] <= q[2]}}
    \cup {[lines |-> 2, start |-> SrtOfMs(0), end |-> SrtOfMs(1000)]}

SrtFiles == UNION {[1..n -> Blocks] : n \in 0..MaxCues}

\* create_ass_file(srt_path, ass_path, language)
CreateAssFile ==
    \E language \in {"hi", "en"} :
        /\ a_pc = "idle"
        /\ IF language \in LANGUAGE_CONFIG_keys
           THEN /\ a_pc' = "written"
                /\ ass_events' = create_ass_file_events(srt_blocks)
           ELSE /\ a_pc' = "KeyError"
                /\ ass_events' = ass_events
        /\ UNCHANGED srt_blocks
        /\ UNCHANGED <<timeVars, mergeVars, validVars, cutVars, fastVars, jsonVars, procVars, batchVars, burnVars, treeVars, toolVars, msgVars, splitVars>>

----------------------------------------------------------------------------
(* Format validation: validate_video_formats *)

\* get_video_info results: (codec_name, width, height)
Infos == {<<"h264", 1280, 720>>, <<"h264", 640, 360>>, <<"hevc", 1280, 720>>}

\* a video path: whether the file exists, whether ffprobe succeeds, its stream
ClipFiles == [exists : BOOLEAN, probe_ok : BOOLEAN, info : Infos]

\* the state of validate_video_formats before its loop; error is what the
\* ValueError message names: the path, its tuple and the baseline
no_validation ==
    [pc |-> "idle", baseline |-> <<>>, probed |-> <<>>,
     error |-> [path |-> 0, has |-> <<>>, expected |-> <<>>]]

\* the for loop over video_paths: state [pc, baseline, probed, error]
RECURSIVE validate_loop(_, _, _)
validate_loop(paths, i, st) ==
    IF i > Len(paths) THEN [st EXCEPT !.pc = "ok"]
    ELSE IF ~paths[i].exists THEN [st EXCEPT !.pc = "FileNotFoundError"]
    ELSE IF ~paths[i].probe_ok
         THEN [st EXCEPT !.pc = "RuntimeError", !.probed = Append(@, i)]
    ELSE IF st.baseline = <<>>
         THEN validate_loop(paths, i + 1,
                  [st EXCEPT !.baseline = paths[i].info, !.probed = Append(@, i)])
    ELSE IF paths[i].info # st.baseline
         THEN [st EXCEPT !.pc = "ValueError", !.probed = Append(@, i),
                         !.error = [path |-> i, has |-> paths[i].info,
                                    expected |-> st.baseline]]
    ELSE validate_loop(paths, i + 1, [st EXCEPT !.probed = Append(@, i)])

\* validate_video_formats comparing the codec name only
RECURSIVE validate_codec_loop(_, _, _)
validate_codec_loop(paths, i, st) ==
    IF i > Len(paths) THEN [st EXCEPT !.pc = "ok"]
    ELSE IF ~paths[i].exists THEN [st EXCEPT !.pc = "FileNotFoundError"]
    ELSE IF ~paths[i].probe_ok
         THEN [st EXCEPT !.pc = "RuntimeError", !.probed = Append(@, i)]
    ELSE IF st.baseline = <<>>
         THEN validate_codec_loop(paths, i + 1,
                  [st EXCEPT !.baseline = paths[i].info, !.probed = Append(@, i)])
    ELSE IF paths[i].info[1] # st.baseline[1]
         THEN [st EXCEPT !.pc = "ValueError", !.probed = Append(@, i),
                         !.error = [path |-> i, has |-> paths[i].info,
                                    expected |-> st.baseline]]
    ELSE validate_codec_loop(paths, i + 1, [st EXCEPT !.probed = Append(@, i)])

validate_video_formats_codec_only(paths) ==
    validate_codec_loop(paths, 1, no_validation)

\* validate_video_formats that probes every clip before it compares
validate_video_formats_probe_all(paths) ==
    LET r == validate_loop(paths, 1, no_validation)
    IN IF r.pc = "ValueError"
       THEN [r EXCEPT !.probed = [i \in 1..Len(paths) |-> i]]
       ELSE r

validate_video_formats(paths) ==
    validate_loop(paths, 1, no_validation)

\* validate_video_formats(video_paths, base_dir)
ValidateVideoFormats ==
    /\ v_pc = "idle"
    /\ LET r == validate_video_formats(clips)
       IN /\ v_pc' = r.pc
          /\ v_probed' = r.probed
          /\ v_baseline' = r.baseline
          /\ v_error' = r.error
    /\ UNCHANGED clips
    /\ UNCHANGED <<timeVars, mergeVars, assVars, cutVars, fastVars, jsonVars, procVars, batchVars, burnVars, treeVars, toolVars, splitVars>>

----------------------------------------------------------------------------
(* FFmpegHandler.extract_segments of chunk_structure.py, with the file system *)

\* a JSON value found under "id": an int, a str or None (key missing)
J_int(n) == [kind |-> "int", num |-> n, text |-> <<>>]
J_str(s) == [kind |-> "str", num |-> -1, text |-> s]
J_None == [kind |-> "None", num |-> -1, text |-> <<>>]

\* int(x) that yields 0 where Python raises
int_or_zero(x) ==
    IF x.kind = "int" THEN [err |-> "", val |-> x.num]
    ELSE IF x.kind = "str" /\ x.text # <<>>
            /\ \A i \in 1..Len(x.text) : \E d \in 1..10 : Digits[d] = x.text[i]
         THEN [err |-> "", val |-> float(x.text)]
    ELSE [err |-> "", val |-> 0]

\* int(x): ValueError for a str that is not a decimal literal, TypeError for None
int(x) ==
    IF x.kind = "int" THEN [err |-> "", val |-> x.num]
    ELSE IF x.kind = "str"
         THEN IF /\ x.text # <<>>
                 /\ \A i \in 1..Len(x.text) : \E d \in 1..10 : Digits[d] = x.text[i]
              THEN [err |-> "", val |-> float(x.text)]
              ELSE [err |-> "ValueError", val |-> -1]
    ELSE [err |-> "TypeError", val |-> -1]

\* s.replace(":", "-")
replace_colon(s) == [i \in 1..Len(s) |-> IF s[i] = ":" THEN "-" ELSE s[i]]

\* os.path.splitext(os.path.basename(video_path)) of the input video "mv.mp4"
movie_name == <<"m", "v">>
ext == <<"m", "p", "4">>

\* os.path.join(output_dir, f"{movie_name}_{seg_id_num:03d}_{start_str}_to_{end_str}_{lang_suffix}.{ext}")
out_file(output_dir, seg_id_num, start, end, lang_suffix) ==
    output_dir \o <<"/">> \o movie_name \o <<"_">> \o fmt03(seg_id_num)
    \o <<"_">> \o replace_colon(start) \o <<"_", "t", "o", "_">>
    \o replace_colon(end) \o <<"_">> \o lang_suffix \o <<".">> \o ext

\* the ffmpeg cut without overwrite_output(): it also fails on an existing file
ffmpeg_run_no_overwrite(file, start, end, bad, disk) ==
    <<start, end>> \notin bad /\ file \notin disk

\* ffmpeg.input(ss, t).output(out_file, c="copy").overwrite_output().run():
\* TRUE when ffmpeg exits with status 0; an existing out_file is replaced
ffmpeg_run(file, start, end, bad, disk) ==
    <<start, end>> \notin bad

\* the for loop over segments: state [pc, outputs, cuts, disk]
RECURSIVE extract_loop(_, _, _, _, _, _)
extract_loop(segments, output_dir, lang_suffix, bad, i, st) ==
    IF i > Len(segments) THEN [st EXCEPT !.pc = "returned"]
    ELSE LET seg == segments[i]
             seg_id_num == int(seg.id)
             file == out_file(output_dir, seg_id_num.val, seg.start, seg.end,
                              lang_suffix)
             cut  == [i |-> i, file |-> file]
         IN IF seg_id_num.err # "" THEN [st EXCEPT !.pc = "ValueError"]
            ELSE IF ~ffmpeg_run(file, seg.start, seg.end, bad, st.disk)
                 THEN [st EXCEPT !.pc = "ffmpeg.Error", !.cuts = Append(@, cut)]
            ELSE extract_loop(segments, output_dir, lang_suffix, bad, i + 1,
                    [st EXCEPT !.cuts = Append(@, cut),
                               !.disk = @ \cup {file},
                               !.outputs = Append(@, [file  |-> file,
                                                      id    |-> seg.id,
                                                      start |-> seg.start,
                                                      end   |-> seg.end])])

\* FFmpegHandler.extract_segments(video_path, segments, output_dir, lang_suffix)
\* run against the files already in output_dir
FFmpegHandler_extract_segments(segments, output_dir, lang_suffix, bad, disk) ==
    extract_loop(segments, output_dir, lang_suffix, bad, 1,
                 [pc |-> "run", outputs |-> <<>>, cuts |-> <<>>, disk |-> disk])

\* inputs: ids of every JSON kind, two spans, two suffixes
JsonIds == {J_int(1), J_int(2), J_str(<<"7">>), J_str(<<"a", "1">>), J_None}
CutSpans == {<<hms0, seconds_to_hms(10000)>>,
             <<seconds_to_hms(10000), seconds_to_hms(20000)>>}
CutSegments ==
    {[id |-> j, label |-> "song", start |-> sp[1], end |-> sp[2]] :
        j \in JsonIds, sp \in CutSpans}
Suffixes == {<<"h", "i">>, <<"t", "a">>}
clips_dir == <<"c", "l", "i", "p", "s">>

\* one call of FFmpegHandler.extract_segments on the same media and segments
FFmpegExtractSegments ==
    \E lang_suffix \in Suffixes :
        /\ x_runs < MaxRuns
        /\ LET r == FFmpegHandler_extract_segments(x_segments, clips_dir,
                                                   lang_suffix, x_bad, x_disk)
           IN /\ x_pc' = r.pc
              /\ x_outputs' = r.outputs
              /\ x_cuts' = r.cuts
              /\ x_disk' = r.disk
        /\ x_suffix' = lang_suffix
        /\ x_dir' = TRUE
        /\ x_prev' = [pc |-> x_pc, suffix |-> x_suffix, disk |-> x_disk]
        /\ x_runs' = x_runs + 1
        /\ UNCHANGED <<x_segments, x_bad>>
        /\ UNCHANGED <<timeVars, mergeVars, assVars, validVars, fastVars, jsonVars, procVars, batchVars, burnVars, treeVars, toolVars, msgVars, splitVars>>

----------------------------------------------------------------------------
(* merge_videos_ffmpeg_fast of integrating_srtfile.py, step by step *)

\* natsorted(video_paths) for paths "part<N>.mp4": by the number N, file order
\* kept among equal names
natsorted(paths) ==
    sorted(paths, [i \in 1..Len(paths) |-> <<paths[i].name>>])

\* what follows validate_video_formats when its failure is logged and dropped
after_validation_swallowed(r) == "validated"

\* what follows validate_video_formats: its exception propagates (log_exceptions
\* re-raises), otherwise the merge goes on
after_validation(r) == IF r.pc = "ok" THEN "validated" ELSE r.pc

\* video paths "part2.mp4" and "part10.mp4"; a path names one file
PartNumbers == {2, 10}
FastPaths == [name : PartNumbers, exists : BOOLEAN, probe_ok : BOOLEAN,
              info : {<<"h264", 1280, 720>>, <<"hevc", 1280, 720>>}]
FastPathLists ==
    {s \in UNION {[1..n -> FastPaths] : n \in 0..MaxPaths} :
        \A i, j \in 1..Len(s) : s[i].name = s[j].name => s[i] = s[j]}

\* lines 122-123: natsorted, then validate_video_formats
FastValidate ==
    /\ f_pc = "start"
    /\ f_sorted' = natsorted(f_paths)
    /\ LET r == validate_video_formats(natsorted(f_paths))
       IN /\ f_pc' = after_validation(r)
          /\ f_probed' = r.probed
    /\ UNCHANGED <<f_paths, f_written, f_lines, f_copy, f_output>>
    /\ UNCHANGED <<timeVars, mergeVars, assVars, validVars, cutVars, jsonVars, procVars, batchVars, burnVars, treeVars, toolVars, msgVars, splitVars>>

\* lines 128-132: concat_list.txt lists every path in order
FastWritePlaylist ==
    /\ f_pc = "validated"
    /\ f_pc' = "playlist"
    /\ f_written' = TRUE
    /\ f_lines' = [i \in 1..Len(f_sorted) |-> f_sorted[i].name]
    /\ UNCHANGED <<f_paths, f_sorted, f_probed, f_copy, f_output>>
    /\ UNCHANGED <<timeVars, mergeVars, assVars, validVars, cutVars, jsonVars, procVars, batchVars, burnVars, treeVars, toolVars, msgVars, splitVars>>

\* lines 134-141: ffmpeg -f concat -c copy; a non-zero exit raises RuntimeError
FastConcat ==
    \E returncode \in {0, 1} :
        /\ f_pc = "playlist"
        /\ f_copy' = f_copy + 1
        /\ f_pc' = IF returncode # 0 THEN "MergeRuntimeError" ELSE "done"
        /\ f_output' = IF returncode # 0 THEN f_output ELSE "copy"
        /\ UNCHANGED <<f_paths, f_sorted, f_probed, f_written, f_lines>>
        /\ UNCHANGED <<timeVars, mergeVars, assVars, validVars, cutVars, jsonVars, procVars, batchVars, burnVars, treeVars, toolVars, msgVars, splitVars>>

----------------------------------------------------------------------------
(* The manifest file and the VideoProcessor of chunk_structure.py *)

\* with open(json_file) as f: data = json.load(f)
json_load(file) ==
    IF file.status = "absent" THEN [err |-> "FileNotFoundError", data |-> <<>>]
    ELSE IF file.status = "unparseable"
         THEN [err |-> "JSONDecodeError", data |-> <<>>]
    ELSE [err |-> "", data |-> file.data]

\* SegmentExtractor.extract_segments_by_label: the exception of open or
\* json.load is logged and raised again
SegmentExtractor_extract_segments_by_label(file, label) ==
    LET r == json_load(file)
    IN IF r.err # "" THEN [pc |-> r.err, segments |-> <<>>]
       ELSE [pc |-> "returned",
             segments |-> extract_segments_by_label(r.data, label)]

\* lines 327-331 on clips whose id is a JSON value: by (int(id), start)
merge_by_int_id(song_clips, story_clips) ==
    LET all_segments == song_clips \o story_clips
    IN sorted(all_segments,
              [i \in 1..Len(all_segments) |->
                    <<int(all_segments[i].id).val,
                      time_to_seconds(all_segments[i].start)>>])

song_dir == <<"s", "o", "n", "g", "_", "f", "i", "l", "e", "s">>
story_dir == <<"s", "t", "o", "r", "y", "_", "f", "i", "l", "e", "s">>

\* self.extracted_segments assigned from whatever was cut, also on failure
stored_after_eager(pc, song_clips, story_clips, extracted) ==
    merge_by_int_id(song_clips, story_clips)

\* self.extracted_segments after the call: assigned on line 333 only, which an
\* exception raised before it never reaches
stored_after(pc, song_clips, story_clips, extracted) ==
    IF pc = "returned" THEN merge_by_int_id(song_clips, story_clips)
    ELSE extracted

\* VideoProcessor.extract_segments(label, lang_suffix): [pc, ret, extracted, disk]
VideoProcessor_extract_segments(file, probe_ok, lang_suffix, bad, disk, extracted) ==
    LET song  == SegmentExtractor_extract_segments_by_label(file, "song")
        voice == SegmentExtractor_extract_segments_by_label(file, "voice")
        none  == [pc |-> "returned", outputs |-> <<>>, cuts |-> <<>>,
                  disk |-> disk]
        rs    == IF song.segments # <<>>
                 THEN FFmpegHandler_extract_segments(song.segments, song_dir,
                                                     lang_suffix, bad, disk)
                 ELSE none
        rv    == IF rs.pc # "returned" THEN [rs EXCEPT !.outputs = <<>>]
                 ELSE IF voice.segments # <<>>
                 THEN FFmpegHandler_extract_segments(voice.segments, story_dir,
                                                     lang_suffix, bad, rs.disk)
                 ELSE [none EXCEPT !.disk = rs.disk]
    IN IF song.pc # "returned"
       THEN [pc |-> song.pc, ret |-> <<>>, extracted |-> extracted, disk |-> disk]
       ELSE IF ~probe_ok
       THEN [pc |-> "ffmpeg.Error", ret |-> <<>>, extracted |-> extracted,
             disk |-> disk]
       ELSE [pc  |-> rv.pc,
             ret |-> IF rv.pc = "returned"
                     THEN merge_by_int_id(rs.outputs, rv.outputs) ELSE <<>>,
             extracted |-> stored_after(rv.pc, rs.outputs, rv.outputs, extracted),
             disk |-> rv.disk]

\* manifest files: present with records of every kind of id, absent, unparseable
JsonSpans == {<<0, 10000>>, <<10000, 20500>>}
JsonRecords ==
    {[id |-> j, label |-> l, start |-> sp[1], end |-> sp[2]] :
        j \in JsonIds, l \in Labels, sp \in JsonSpans}
JsonFiles ==
    {[status |-> "ok", data |-> d] :
        d \in UNION {[1..n -> JsonRecords] : n \in 0..MaxRecords}}
    \cup {[status |-> "absent", data |-> <<>>],
          [status |-> "unparseable", data |-> <<>>]}

\* the manifest files a VideoProcessor is driven with: integer and missing ids
ProcFiles ==
    {[status |-> "ok", data |-> d] :
        d \in UNION {[1..n ->
                        {[id |-> j, label |-> l, start |-> sp[1], end |-> sp[2]] :
                            j \in {J_int(1), J_None}, l \in Labels,
                            sp \in JsonSpans \cup {<<10000, 20900>>}}]
                     : n \in 0..MaxRecords}}
    \cup {[status |-> "absent", data |-> <<>>],
          [status |-> "unparseable", data |-> <<>>]}

\* VideoProcessor.extract_segments(label, lang_suffix)
VPExtractSegments ==
    \E probe_ok \in BOOLEAN, bad \in SUBSET CutSpans :
        LET r == VideoProcessor_extract_segments(j_file, probe_ok, <<"h", "i">>,
                                                 bad, p_disk, p_extracted)
        IN /\ p_op' = "extract"
           /\ p_pc' = r.pc
           /\ p_before' = p_extracted
           /\ p_extracted' = r.extracted
           /\ p_disk' = r.disk
           /\ p_completed' = IF r.pc = "returned" THEN p_completed \cup {r.ret}
                             ELSE p_completed
           /\ UNCHANGED p_concat
           /\ UNCHANGED jsonVars
           /\ UNCHANGED <<timeVars, mergeVars, assVars, validVars, cutVars, fastVars, batchVars, burnVars, treeVars, toolVars, msgVars, splitVars>>

\* VideoProcessor.concatenate_segments(concat_output)
VPConcatenateSegments ==
    \E ffmpeg_ok \in BOOLEAN :
        /\ p_op' = "concatenate"
        /\ p_before' = p_extracted
        /\ IF p_extracted = <<>>
           THEN /\ p_pc' = "ValueError"
                /\ UNCHANGED p_concat
           ELSE /\ p_pc' = IF ffmpeg_ok THEN "concatenated" ELSE "ffmpeg.Error"
                /\ p_concat' = p_extracted
        /\ UNCHANGED <<p_extracted, p_disk, p_completed>>
        /\ UNCHANGED jsonVars
        /\ UNCHANGED <<timeVars, mergeVars, assVars, validVars, cutVars, fastVars, batchVars, burnVars, treeVars, toolVars, msgVars, splitVars>>

----------------------------------------------------------------------------
(* Batch operations on a worker pool: extract_audio_batch, split_video_fast *)

\* executor.submit for every task: all futures pending
submit_all(tasks) == [i \in 1..Len(tasks) |-> "pending"]

\* extract_audio_batch: the pool is entered and every pair submitted
ExtractAudioBatch ==
    /\ b_pc = "idle"
    /\ b_kind' = "extract_audio_batch"
    /\ b_pc' = "collect"
    /\ b_fut' = submit_all(b_tasks)
    /\ UNCHANGED <<b_tasks, b_out, b_handled, b_logged, b_next>>
    /\ UNCHANGED <<timeVars, mergeVars, assVars, validVars, cutVars, fastVars, jsonVars, procVars, burnVars, treeVars, toolVars, msgVars, splitVars>>

\* split_video_fast: a failed probe is logged and the call returns; otherwise
\* the pool is entered and every task submitted
SplitVideoFast ==
    \E probe_ok \in BOOLEAN :
        /\ b_pc = "idle"
        /\ b_kind' = "split_video_fast"
        /\ b_pc' = IF probe_ok THEN "collect" ELSE "returned"
        /\ b_fut' = IF probe_ok THEN submit_all(b_tasks) ELSE <<>>
        /\ b_probe' = Append(b_probe, IF probe_ok THEN "ok" ELSE "failed")
        /\ UNCHANGED <<b_tasks, b_out, b_handled, b_logged, b_next>>
        /\ UNCHANGED <<timeVars, mergeVars, assVars, validVars, cutVars, fastVars, jsonVars, procVars, burnVars, treeVars, msgVars, splitVars>>

\* a worker runs one submitted task to its end: AudioExtraction or
\* ffmpeg_split_video; the pool keeps running while an exception unwinds
TaskRun ==
    \E i \in 1..Len(b_fut) :
        /\ b_pc \in {"collect", "unwinding"}
        /\ b_fut[i] = "pending"
        /\ b_fut' = [b_fut EXCEPT ![i] = IF b_tasks[i] THEN "done" ELSE "failed"]
        /\ b_out' = IF b_tasks[i] THEN b_out \cup {i} ELSE b_out
        /\ UNCHANGED <<b_tasks, b_kind, b_pc, b_handled, b_logged, b_next>>
        /\ UNCHANGED <<timeVars, mergeVars, assVars, validVars, cutVars, fastVars, jsonVars, procVars, burnVars, treeVars, toolVars, msgVars, splitVars>>

\* extract_audio_batch, lines 77-82: a finished future is taken from
\* as_completed; its exception is caught and logged
AudioCollect ==
    \E i \in 1..Len(b_fut) :
        /\ b_kind = "extract_audio_batch"
        /\ b_pc = "collect"
        /\ b_fut[i] # "pending"
        /\ i \notin b_handled
        /\ b_handled' = b_handled \cup {i}
        /\ b_logged' = IF b_fut[i] = "failed" THEN b_logged \cup {i} ELSE b_logged
        /\ UNCHANGED <<b_tasks, b_kind, b_pc, b_fut, b_out, b_next>>
        /\ UNCHANGED <<timeVars, mergeVars, assVars, validVars, cutVars, fastVars, jsonVars, procVars, burnVars, treeVars, toolVars, msgVars, splitVars>>

\* extract_audio_batch: as_completed is exhausted, the function returns None
AudioReturn ==
    /\ b_kind = "extract_audio_batch"
    /\ b_pc = "collect"
    /\ b_handled = 1..Len(b_fut)
    /\ b_pc' = "returned"
    /\ UNCHANGED <<b_tasks, b_kind, b_fut, b_out, b_handled, b_logged, b_next>>
    /\ UNCHANGED <<timeVars, mergeVars, assVars, validVars, cutVars, fastVars, jsonVars, procVars, burnVars, treeVars, toolVars, msgVars, splitVars>>

\* split_video_fast, lines 149-150: f.result() of the next future in
\* submission order; the exception of a failed one is raised
SplitWait ==
    /\ b_kind = "split_video_fast"
    /\ b_pc = "collect"
    /\ b_next <= Len(b_fut)
    /\ b_fut[b_next] # "pending"
    /\ IF b_fut[b_next] = "failed"
       THEN b_pc' = "unwinding" /\ UNCHANGED b_next
       ELSE b_next' = b_next + 1 /\ UNCHANGED b_pc
    /\ UNCHANGED <<b_tasks, b_kind, b_fut, b_out, b_handled, b_logged>>
    /\ UNCHANGED <<timeVars, mergeVars, assVars, validVars, cutVars, fastVars, jsonVars, procVars, burnVars, treeVars, toolVars, msgVars, splitVars>>

\* split_video_fast: every f.result() returned, the function returns None
SplitReturn ==
    /\ b_kind = "split_video_fast"
    /\ b_pc = "collect"
    /\ b_next > Len(b_fut)
    /\ b_pc' = "returned"
    /\ UNCHANGED <<b_tasks, b_kind, b_fut, b_out, b_handled, b_logged, b_next>>
    /\ UNCHANGED <<timeVars, mergeVars, assVars, validVars, cutVars, fastVars, jsonVars, procVars, burnVars, treeVars, toolVars, msgVars, splitVars>>

\* split_video_fast: leaving the with block waits for the futures still
\* pending (shutdown(wait=True)), then log_exceptions logs and raises again
SplitRaise ==
    /\ b_pc = "unwinding"
    /\ \A i \in 1..Len(b_fut) : b_fut[i] # "pending"
    /\ b_pc' = "raised"
    /\ UNCHANGED <<b_tasks, b_kind, b_fut, b_out, b_handled, b_logged, b_next>>
    /\ UNCHANGED <<timeVars, mergeVars, assVars, validVars, cutVars, fastVars, jsonVars, procVars, burnVars, treeVars, toolVars, msgVars, splitVars>>

----------------------------------------------------------------------------
(* The readers of the manifest: extract_segments_by_label, create_structure *)

\* ProjectStructureManager._parse_json_chunks: a missing path and any exception
\* of open or json.load are printed and the empty result is returned
parse_json_chunks(file) ==
    LET r == json_load(file)
        ids(label) == LET sel == SelectSeq(r.data, LAMBDA c : c.label = label)
                      IN [i \in 1..Len(sel) |-> sel[i].id]
    IN IF r.err # "" THEN [songs |-> <<>>, voice |-> <<>>]
       ELSE [songs |-> ids("song"), voice |-> ids("voice")]

\* the folders create_structure makes for base language "en", target "hi"
InputDirs ==
    {<<"Input", "en", "songs", sub>> : sub \in {"audio_files", "song_files", "srt_files"}}
    \cup {<<"Input", "en", "story", sub>> : sub \in {"audio_files", "story_files", "srt_files"}}
OutputDirs ==
    {<<"Output", "hi", "songs", sub>> : sub \in {"srt_files", "subtitle_files", "evaluation"}}
    \cup {<<"Output", "hi", "story", sub>> : sub \in {"dubbed_files", "srt_files", "evaluation"}}

\* the files create_structure moves into Input; the manifest only if it exists
MovedFiles(file) ==
    {<<"Input", "mv.mp4">>}
    \cup (IF file.status # "absent" THEN {<<"Input", "manifest.json">>} ELSE {})

RequestLabels == {"song", "voice", "intro"}

\* SegmentExtractor.extract_segments_by_label(label)
SEExtractSegmentsByLabel ==
    \E label \in RequestLabels :
        /\ j_pc = "idle"
        /\ LET r == SegmentExtractor_extract_segments_by_label(j_file, label)
           IN /\ j_pc' = r.pc
              /\ j_ret' = r.segments
        /\ j_label' = label
        /\ UNCHANGED <<j_file, j_chunks, j_dirs>>
        /\ UNCHANGED <<timeVars, mergeVars, assVars, validVars, cutVars, fastVars, procVars, batchVars, burnVars, treeVars, toolVars, msgVars, splitVars>>

\* create_structure(move_files=True) on the project tree `dirs` and the upload
\* paths `src`: [pc, chunks, dirs, src].  The folders are made with
\* exist_ok=True; the movie is looked for at input_movie_path before its
\* destination is; each file is moved only if its destination is free.
create_structure(file, src, dirs) ==
    LET at_path == IF src.manifest THEN file
                   ELSE [status |-> "absent", data |-> <<>>]
        made    == dirs \cup InputDirs \cup OutputDirs
        mv      == <<"Input", "mv.mp4">>
        js      == <<"Input", "manifest.json">>
        move_mv == mv \notin made
        move_js == src.manifest /\ js \notin made
    IN IF ~src.movie
       THEN [pc |-> "MovieNotFoundError", chunks |-> parse_json_chunks(at_path),
             dirs |-> made, src |-> src]
       ELSE [pc |-> "created", chunks |-> parse_json_chunks(at_path),
             dirs |-> made \cup (IF move_mv THEN {mv} ELSE {})
                          \cup (IF move_js THEN {js} ELSE {}),
             src |-> [movie |-> ~move_mv,
                      manifest |-> src.manifest /\ ~move_js]]

\* the trees create_structure may find: none, or one populated by an earlier run
ProjectTrees == {{}, InputDirs \cup OutputDirs \cup {<<"Input", "mv.mp4">>}}

\* ProjectStructureManager.create_structure(move_files=True), invoked up to
\* MaxCalls times on the same manager
CreateStructure ==
    LET r == create_structure(j_file, j_src, j_dirs)
    IN /\ j_pc \in {"idle", "created", "MovieNotFoundError"}
       /\ j_calls < MaxCalls
       /\ j_calls' = j_calls + 1
       /\ j_before' = [pc |-> j_pc, dirs |-> j_dirs, src |-> j_src]
       /\ j_chunks' = r.chunks
       /\ j_pc' = r.pc
       /\ j_dirs' = r.dirs
       /\ j_src' = r.src
       /\ UNCHANGED <<j_file, j_label, j_ret>>
       /\ UNCHANGED <<timeVars, mergeVars, assVars, validVars, cutVars, fastVars, procVars, batchVars, burnVars, toolVars, msgVars, splitVars>>

----------------------------------------------------------------------------
(* Subtitle conversion on disk: create_ass_file and burn_subtitles *)

\* language_const.LANGUAGES: language name -> language code
LANGUAGES ==
    [n \in {"English", "Spanish", "Bhasa", "Hindi", "Malay", "Tamil",
            "Malayalam", "Kannada", "Marathi", "Gujarati", "Bhojpuri",
            "Sinhala", "Swahili", "Arabic", "Telugu"} |->
        CASE n = "English" -> "en"   [] n = "Spanish" -> "es"
          [] n = "Bhasa" -> "id"     [] n = "Hindi" -> "hi"
          [] n = "Malay" -> "ms"     [] n = "Tamil" -> "ta"
          [] n = "Malayalam" -> "ml" [] n = "Kannada" -> "kn"
          [] n = "Marathi" -> "mr"   [] n = "Gujarati" -> "gu"
          [] n = "Bhojpuri" -> "bho" [] n = "Sinhala" -> "si"
          [] n = "Swahili" -> "sw"   [] n = "Arabic" -> "ar"
          [] n = "Telugu" -> "te"]

\* no file at a path
no_file == [exists |-> FALSE, style |-> "", events |-> <<>>]

\* create_ass_file that falls back to a default style for an unknown language
create_ass_file_default_style(srt, language, ass) ==
    IF ~srt.exists THEN [pc |-> "FileNotFoundError", ass |-> ass]
    ELSE [pc |-> "written",
          ass |-> [exists |-> TRUE,
                   style |-> IF language \in LANGUAGE_CONFIG_keys
                             THEN language ELSE "default",
                   events |-> create_ass_file_events(srt.blocks)]]

\* create_ass_file that opens both files before it looks the style up
create_ass_file_open_first(srt, language, ass) ==
    IF ~srt.exists THEN [pc |-> "FileNotFoundError", ass |-> ass]
    ELSE IF language \notin LANGUAGE_CONFIG_keys
    THEN [pc |-> "KeyError",
          ass |-> [exists |-> TRUE, style |-> "", events |-> <<>>]]
    ELSE [pc |-> "written",
          ass |-> [exists |-> TRUE, style |-> language,
                   events |-> create_ass_file_events(srt.blocks)]]

\* create_ass_file(srt_path, ass_path, language) on the two files: the style
\* lookup, then srt_path.open('r'), then ass_path.open('w') and the writes.
\* The style of the written file is the LANGUAGE_CONFIG entry of its header.
create_ass_file(srt, language, ass) ==
    IF language \notin LANGUAGE_CONFIG_keys
    THEN [pc |-> "KeyError", ass |-> ass]
    ELSE IF ~srt.exists THEN [pc |-> "FileNotFoundError", ass |-> ass]
    ELSE [pc |-> "written",
          ass |-> [exists |-> TRUE, style |-> language,
                   events |-> create_ass_file_events(srt.blocks)]]

\* burn_subtitles(lang, ...): [pc, ass, burn]; the ffmpeg run's exit status
\* is not looked at
burn_subtitles(lang, srt, ass, ffmpeg_ok) ==
    IF lang \notin DOMAIN LANGUAGES
    THEN [pc |-> "KeyError", ass |-> ass, burn |-> "none"]
    ELSE LET r == create_ass_file(srt, LANGUAGES[lang], ass)
         IN IF r.pc # "written"
            THEN [pc |-> r.pc, ass |-> r.ass, burn |-> "none"]
            ELSE [pc |-> "returned", ass |-> r.ass,
                  burn |-> IF ffmpeg_ok THEN "ok" ELSE "failed"]

\* the SRT files at subtitle_path
BurnSrtFiles ==
    {[exists |-> FALSE, blocks |-> <<>>]} \cup
    {[exists |-> TRUE, blocks |-> b] :
        b \in {<<>>,
               <<[lines |-> 3, start |-> SrtOfMs(1000), end |-> SrtOfMs(2000)]>>}}

\* what may lie at ass_path before the call: nothing, or an earlier timeline
AssFiles ==
    {no_file,
     [exists |-> TRUE, style |-> "hi",
      events |-> create_ass_file_events(
                    <<[lines |-> 3, start |-> SrtOfMs(0), end |-> SrtOfMs(3000)]>>)]}

\* the language codes a caller passes: every code of LANGUAGES and a stray one
LanguageCodes == {LANGUAGES[n] : n \in DOMAIN LANGUAGES} \cup {"xx"}

\* create_ass_file(srt_path, ass_path, language) called directly
CreateAssFileOnDisk ==
    \E language \in LanguageCodes :
        LET r == create_ass_file(u_srt, language, u_ass)
        IN /\ u_pc = "idle"
           /\ u_op' = "create_ass_file"
           /\ u_lang' = language
           /\ u_pc' = r.pc
           /\ u_ass' = r.ass
           /\ u_before' = u_ass
           /\ UNCHANGED <<u_srt, u_burn>>
           /\ UNCHANGED <<timeVars, mergeVars, assVars, validVars, cutVars, fastVars, jsonVars, procVars, batchVars, treeVars, toolVars, msgVars, splitVars>>

\* burn_subtitles(lang, video_path, subtitle_filename, ...)
BurnSubtitles ==
    \E lang \in DOMAIN LANGUAGES \cup {"Klingon"}, ffmpeg_ok \in BOOLEAN :
        LET r == burn_subtitles(lang, u_srt, u_ass, ffmpeg_ok)
        IN /\ u_pc = "idle"
           /\ u_op' = "burn_subtitles"
           /\ u_lang' = lang
           /\ u_pc' = r.pc
           /\ u_ass' = r.ass
           /\ u_before' = u_ass
           /\ u_burn' = r.burn
           /\ UNCHANGED u_srt
           /\ UNCHANGED <<timeVars, mergeVars, assVars, validVars, cutVars, fastVars, jsonVars, procVars, batchVars, treeVars, toolVars, msgVars, splitVars>>

----------------------------------------------------------------------------

(* The splitters of splitvideo.py: video_splitter and split_video_fast *)

(* Python numbers.  A float is an IEEE 754 binary64 value and an int of the
   sizes used here is one as well, so a number is [neg, mag]: its sign and its
   magnitude in units of 2^-56, the magnitude written as its bits, least
   significant first, without leading zeros (zero is <<>>).  Every binary64
   value of magnitude 2^-4 or more is a whole number of such units; sums,
   differences and integer multiples are formed exactly and then rounded to 53
   significant bits, ties to even, as the hardware does. *)

\* the bits without leading zeros
strip(b) ==
    LET ones == {i \in 1..Len(b) : b[i] = 1}
    IN IF ones = {} THEN <<>>
       ELSE SubSeq(b, 1, CHOOSE i \in ones : \A k \in ones : k <= i)

\* bit i of a, zero beyond its length
bit(a, i) == IF i <= Len(a) THEN a[i] ELSE 0

\* a + b, exactly: the carry into place i comes from a lower place where both
\* bits are set, through places where exactly one is
badd(a, b) ==
    LET n == (IF Len(a) > Len(b) THEN Len(a) ELSE Len(b)) + 1
        carry(i) == IF \E j \in 1..(i - 1) :
                          /\ bit(a, j) + bit(b, j) = 2
                          /\ \A k \in (j + 1)..(i - 1) : bit(a, k) + bit(b, k) >= 1
                    THEN 1 ELSE 0
    IN strip([i \in 1..n |-> (bit(a, i) + bit(b, i) + carry(i)) % 2])

\* a - b for a >= b, exactly: the borrow into place i comes from a lower place
\* where a has 0 and b has 1, through places where a has no more than b
bsub(a, b) ==
    LET borrow(i) == IF \E j \in 1..(i - 1) :
                           /\ bit(a, j) < bit(b, j)
                           /\ \A k \in (j + 1)..(i - 1) : bit(a, k) <= bit(b, k)
                     THEN 1 ELSE 0
    IN strip([i \in 1..Len(a) |-> (bit(a, i) - bit(b, i) - borrow(i)) % 2])

\* a < b
bless(a, b) ==
    IF Len(a) # Len(b) THEN Len(a) < Len(b)
    ELSE \E i \in 1..Len(a) :
            a[i] < b[i] /\ \A j \in (i + 1)..Len(a) : a[j] = b[j]

\* a * 2^k
shl(a, k) == IF a = <<>> THEN <<>> ELSE [i \in 1..k |-> 0] \o a

\* i * a, exactly
RECURSIVE bmul(_, _)
bmul(i, a) ==
    IF i = 0 THEN <<>>
    ELSE badd(IF i % 2 = 1 THEN a ELSE <<>>, shl(bmul(i \div 2, a), 1))

\* the bits of a natural number
RECURSIVE to_bits(_)
to_bits(n) == IF n = 0 THEN <<>> ELSE <<n % 2>> \o to_bits(n \div 2)

\* round to nearest binary64, ties to even: at most 53 significant bits stay
round53(a) ==
    IF Len(a) <= 53 THEN a
    ELSE LET d      == Len(a) - 53
             kept   == SubSeq(a, d + 1, Len(a))
             sticky == \E i \in 1..(d - 1) : a[i] = 1
             up     == a[d] = 1 /\ (sticky \/ kept[1] = 1)
         IN shl(IF up THEN badd(kept, <<1>>) ELSE kept, d)

\* the int n
from_int(n) ==
    [neg |-> n < 0, mag |-> shl(to_bits(IF n < 0 THEN 0 - n ELSE n), 56)]

\* the float whose float.hex() is 0x1.<frac>p<exp>: mant is the hexadecimal
\* digits "1" \o frac, most significant first
RECURSIVE hex_bits(_)
hex_bits(h) ==
    IF h = <<>> THEN <<>>
    ELSE LET c == h[Len(h)]
             v == CASE c = "a" -> 10 [] c = "b" -> 11 [] c = "c" -> 12
                    [] c = "d" -> 13 [] c = "e" -> 14 [] c = "f" -> 15
                    [] OTHER -> float(<<c>>)
         IN <<v % 2, (v \div 2) % 2, (v \div 4) % 2, v \div 8>>
            \o hex_bits(SubSeq(h, 1, Len(h) - 1))
from_hex(mant, exp) ==
    [neg |-> FALSE,
     mag |-> shl(strip(hex_bits(mant)), exp + 56 - 4 * (Len(mant) - 1))]

\* x < y
lt(x, y) ==
    IF x.neg # y.neg THEN x.neg
    ELSE IF x.neg THEN bless(y.mag, x.mag) ELSE bless(x.mag, y.mag)

\* min(x, y)
min(x, y) == IF lt(y, x) THEN y ELSE x

\* x + y
add(x, y) ==
    IF x.neg = y.neg THEN [neg |-> x.neg, mag |-> round53(badd(x.mag, y.mag))]
    ELSE LET big   == IF bless(x.mag, y.mag) THEN y ELSE x
             small == IF bless(x.mag, y.mag) THEN x ELSE y
             m     == round53(bsub(big.mag, small.mag))
         IN [neg |-> big.neg /\ m # <<>>, mag |-> m]

\* x - y
sub(x, y) == add(x, [neg |-> ~y.neg /\ y.mag # <<>>, mag |-> y.mag])

\* i * x for an int i >= 0
mul(i, x) ==
    LET m == round53(bmul(i, x.mag)) IN [neg |-> x.neg /\ m # <<>>, mag |-> m]

\* math.ceil(d / x) for d >= 0 and x > 0.  With k the whole part of the exact
\* quotient and r = d - k * x, the binary64 quotient is k itself when r is zero
\* or the exact quotient lies within half a unit in the last place of k, and
\* lies above k otherwise.
RECURSIVE whole_quotient(_, _, _)
whole_quotient(d, x, k) ==
    IF bless(d, bmul(k + 1, x)) THEN k ELSE whole_quotient(d, x, k + 1)
ceil_div(d, x) ==
    LET k == whole_quotient(d.mag, x.mag, 0)
        r == bsub(d.mag, bmul(k, x.mag))
        e == Len(to_bits(k)) - 1
    IN IF r = <<>> THEN k
       ELSE IF k >= 1 /\ ~bless(x.mag, shl(r, 53 - e)) THEN k
       ELSE k + 1

\* the tasks split_video_fast builds from duration and segment_length:
\* [pc, tasks], a task being start, end, the length end - start and the number
\* in its output name.  A zero segment_length raises in the division; a
\* negative quotient gives an empty range.
split_video_fast_tasks(duration, segment_length) ==
    IF segment_length.mag = <<>>
    THEN [pc |-> "ZeroDivisionError", tasks |-> <<>>]
    ELSE LET total_parts == IF segment_length.neg \/ duration.neg THEN 0
                            ELSE ceil_div(duration, segment_length)
         IN [pc |-> "built",
             tasks |->
               [n \in 1..total_parts |->
                  LET i     == n - 1
                      start == mul(i, segment_length)
                      end   == min(add(start, segment_length), duration)
                  IN [start |-> start, end |-> end,
                      length |-> sub(end, start), part |-> i + 1]]]

\* durations and segment lengths: ints, and the floats 0.1, 0.3, 0.9, 2.1, 2.5
SplitDurations ==
    {from_int(0), from_int(1), from_int(3),
     from_hex(<<"1", "c", "c", "c", "c", "c", "c", "c", "c", "c", "c", "c", "c", "d">>, -1),
     from_hex(<<"1", "0", "c", "c", "c", "c", "c", "c", "c", "c", "c", "c", "c", "d">>, 1),
     from_hex(<<"1", "4">>, 1)}
SplitLengths ==
    {from_int(-1), from_int(0), from_int(1), from_int(2),
     from_hex(<<"1", "9", "9", "9", "9", "9", "9", "9", "9", "9", "9", "9", "9", "a">>, -4),
     from_hex(<<"1", "3", "3", "3", "3", "3", "3", "3", "3", "3", "3", "3", "3", "3">>, -2)}

\* the pairs whose split stays below MaxParts parts
SplitInputs ==
    {p \in SplitDurations \X SplitLengths :
        \/ p[2].neg \/ p[2].mag = <<>>
        \/ ~bless(bmul(MaxParts - 2, p[2].mag), p[1].mag)}

\* split_video_fast, lines 133-141: total_parts and the task list
SplitFastTasks ==
    LET r == split_video_fast_tasks(s_duration, s_length)
    IN /\ s_fast = "idle"
       /\ s_fast' = r.pc
       /\ s_tasks' = r.tasks
       /\ UNCHANGED <<s_duration, s_length, s_pc, s_start, s_end, s_index, s_parts>>
       /\ UNCHANGED <<timeVars, mergeVars, assVars, validVars, cutVars, fastVars, jsonVars, procVars, batchVars, burnVars, treeVars, toolVars, msgVars>>

\* video_splitter, lines 58-61: the loop variables are set
VideoSplitterEnter ==
    /\ s_pc = "idle"
    /\ s_pc' = "loop"
    /\ s_start' = from_int(0)
    /\ s_end' = s_length
    /\ s_index' = 1
    /\ UNCHANGED <<s_duration, s_length, s_fast, s_tasks, s_parts>>
    /\ UNCHANGED <<timeVars, mergeVars, assVars, validVars, cutVars, fastVars, jsonVars, procVars, batchVars, burnVars, treeVars, toolVars, msgVars>>

\* video_splitter, lines 63-72: one pass of the while loop writes a part
VideoSplitterWrite ==
    /\ s_pc = "loop"
    /\ lt(s_start, s_duration)
    /\ s_index <= MaxParts
    /\ s_parts' = Append(s_parts, [start |-> s_start,
                                   end |-> min(s_end, s_duration),
                                   part |-> s_index])
    /\ s_start' = s_end
    /\ s_end' = add(s_end, s_length)
    /\ s_index' = s_index + 1
    /\ UNCHANGED <<s_duration, s_length, s_fast, s_tasks, s_pc>>
    /\ UNCHANGED <<timeVars, mergeVars, assVars, validVars, cutVars, fastVars, jsonVars, procVars, batchVars, burnVars, treeVars, toolVars, msgVars>>

\* video_splitter, lines 63 and 74: the loop condition fails, the call returns
VideoSplitterReturn ==
    /\ s_pc = "loop"
    /\ ~lt(s_start, s_duration)
    /\ s_pc' = "done"
    /\ UNCHANGED <<s_duration, s_length, s_fast, s_tasks, s_start, s_end, s_index, s_parts>>
    /\ UNCHANGED <<timeVars, mergeVars, assVars, validVars, cutVars, fastVars, jsonVars, procVars, batchVars, burnVars, treeVars, toolVars, msgVars>>

----------------------------------------------------------------------------

----------------------------------------------------------------------------
(* Specifications: one per subsystem; the other subsystems stay idle *)

NextTime ==
    \/ SecondsToHms
    \/ TimeToSeconds
    \/ ConvertSrtTimeToAss

NextMerge ==
    \/ ExtractSegmentsByLabel
    \/ GetVideoDuration
    \/ GetStorySegments
    \/ MergeChronological
    \/ MergerProcess
    \/ ExtractSegments
    \/ ConcatenateSegments

NextAss == CreateAssFile

NextValid == ValidateVideoFormats

NextCut == FFmpegExtractSegments

NextManifest ==
    \/ SEExtractSegmentsByLabel
    \/ CreateStructure

NextBatch ==
    \/ ExtractAudioBatch
    \/ SplitVideoFast
    \/ TaskRun
    \/ AudioCollect
    \/ AudioReturn
    \/ SplitWait
    \/ SplitReturn
    \/ SplitRaise

NextProc ==
    \/ VPExtractSegments
    \/ VPConcatenateSegments

NextFast ==
    \/ FastValidate
    \/ FastWritePlaylist
    \/ FastConcat

NextBurn ==
    \/ CreateAssFileOnDisk
    \/ BurnSubtitles

NextSplit ==
    \/ SplitFastTasks
    \/ VideoSplitterEnter
    \/ VideoSplitterWrite
    \/ VideoSplitterReturn

\* TimeUtils and convert_srt_time_to_ass have no state before a call; the other subsystems idle
InitTime ==
    /\ t_pc = "idle"
    /\ t_sec = -1
    /\ t_hms = <<>>
    /\ t_back = -1
    /\ t_srt = [h |-> 0, m |-> 0, s |-> 0, ms |-> -1, str |-> <<>>]
    /\ t_ass = <<>>
    /\ manifest = <<>>
    /\ probe_duration = 0
    /\ m_pc = "start"
    /\ song_segments = <<>>
    /\ video_duration = <<>>
    /\ story_segments = <<>>
    /\ all_segments_sorted = <<>>
    /\ extracted_segments = <<>>
    /\ srt_blocks = <<>>
    /\ ass_events = <<>>
    /\ a_pc = "idle"
    /\ clips = <<>>
    /\ v_pc = "idle"
    /\ v_probed = <<>>
    /\ v_baseline = <<>>
    /\ x_segments = <<>>
    /\ x_bad = {}
    /\ x_pc = "idle"
    /\ x_suffix = <<>>
    /\ x_outputs = <<>>
    /\ x_cuts = <<>>
    /\ x_dir = FALSE
    /\ x_disk = {}
    /\ x_prev = [pc |-> "idle", suffix |-> <<>>, disk |-> {}]
    /\ x_runs = 0
    /\ f_paths = <<>>
    /\ f_pc = "start"
    /\ f_sorted = <<>>
    /\ f_probed = <<>>
    /\ f_written = FALSE
    /\ f_lines = <<>>
    /\ f_copy = 0
    /\ f_output = "none"
    /\ j_file = [status |-> "ok", data |-> <<>>]
    /\ j_pc = "idle"
    /\ j_label = ""
    /\ j_ret = <<>>
    /\ j_chunks = [songs |-> <<>>, voice |-> <<>>]
    /\ j_dirs = {}
    /\ p_op = "none"
    /\ p_pc = "new"
    /\ p_extracted = <<>>
    /\ p_before = <<>>
    /\ p_disk = {}
    /\ p_completed = {}
    /\ p_concat = <<>>
    /\ b_tasks = <<>>
    /\ b_kind = "none"
    /\ b_pc = "idle"
    /\ b_fut = <<>>
    /\ b_out = {}
    /\ b_handled = {}
    /\ b_logged = {}
    /\ b_next = 1
    /\ u_op = "none"
    /\ u_lang = ""
    /\ u_pc = "idle"
    /\ u_srt = [exists |-> FALSE, blocks |-> <<>>]
    /\ u_ass = [exists |-> FALSE, style |-> "", events |-> <<>>]
    /\ u_before = [exists |-> FALSE, style |-> "", events |-> <<>>]
    /\ u_burn = "none"
    /\ j_src = [movie |-> FALSE, manifest |-> FALSE]
    /\ j_calls = 0
    /\ j_before = [pc |-> "idle", dirs |-> {}, src |-> [movie |-> FALSE, manifest |-> FALSE]]
    /\ b_probe = <<>>
    /\ v_error = [path |-> 0, has |-> <<>>, expected |-> <<>>]
    /\ s_duration = [neg |-> FALSE, mag |-> <<>>]
    /\ s_length = [neg |-> FALSE, mag |-> <<>>]
    /\ s_fast = "idle"
    /\ s_tasks = <<>>
    /\ s_pc = "idle"
    /\ s_start = [neg |-> FALSE, mag |-> <<>>]
    /\ s_end = [neg |-> FALSE, mag |-> <<>>]
    /\ s_index = 1
    /\ s_parts = <<>>

\* a manifest and a media file on disk, nothing extracted yet; the other subsystems idle
InitMerge ==
    /\ t_pc = "idle"
    /\ t_sec = -1
    /\ t_hms = <<>>
    /\ t_back = -1
    /\ t_srt = [h |-> 0, m |-> 0, s |-> 0, ms |-> -1, str |-> <<>>]
    /\ t_ass = <<>>
    /\ manifest \in Manifests
    /\ probe_duration \in ProbeDurations
    /\ m_pc = "start"
    /\ song_segments = <<>>
    /\ video_duration = <<>>
    /\ story_segments = <<>>
    /\ all_segments_sorted = <<>>
    /\ extracted_segments = <<>>
    /\ srt_blocks = <<>>
    /\ ass_events = <<>>
    /\ a_pc = "idle"
    /\ clips = <<>>
    /\ v_pc = "idle"
    /\ v_probed = <<>>
    /\ v_baseline = <<>>
    /\ x_segments = <<>>
    /\ x_bad = {}
    /\ x_pc = "idle"
    /\ x_suffix = <<>>
    /\ x_outputs = <<>>
    /\ x_cuts = <<>>
    /\ x_dir = FALSE
    /\ x_disk = {}
    /\ x_prev = [pc |-> "idle", suffix |-> <<>>, disk |-> {}]
    /\ x_runs = 0
    /\ f_paths = <<>>
    /\ f_pc = "start"
    /\ f_sorted = <<>>
    /\ f_probed = <<>>
    /\ f_written = FALSE
    /\ f_lines = <<>>
    /\ f_copy = 0
    /\ f_output = "none"
    /\ j_file = [status |-> "ok", data |-> <<>>]
    /\ j_pc = "idle"
    /\ j_label = ""
    /\ j_ret = <<>>
    /\ j_chunks = [songs |-> <<>>, voice |-> <<>>]
    /\ j_dirs = {}
    /\ p_op = "none"
    /\ p_pc = "new"
    /\ p_extracted = <<>>
    /\ p_before = <<>>
    /\ p_disk = {}
    /\ p_completed = {}
    /\ p_concat = <<>>
    /\ b_tasks = <<>>
    /\ b_kind = "none"
    /\ b_pc = "idle"
    /\ b_fut = <<>>
    /\ b_out = {}
    /\ b_handled = {}
    /\ b_logged = {}
    /\ b_next = 1
    /\ u_op = "none"
    /\ u_lang = ""
    /\ u_pc = "idle"
    /\ u_srt = [exists |-> FALSE, blocks |-> <<>>]
    /\ u_ass = [exists |-> FALSE, style |-> "", events |-> <<>>]
    /\ u_before = [exists |-> FALSE, style |-> "", events |-> <<>>]
    /\ u_burn = "none"
    /\ j_src = [movie |-> FALSE, manifest |-> FALSE]
    /\ j_calls = 0
    /\ j_before = [pc |-> "idle", dirs |-> {}, src |-> [movie |-> FALSE, manifest |-> FALSE]]
    /\ b_probe = <<>>
    /\ v_error = [path |-> 0, has |-> <<>>, expected |-> <<>>]
    /\ s_duration = [neg |-> FALSE, mag |-> <<>>]
    /\ s_length = [neg |-> FALSE, mag |-> <<>>]
    /\ s_fast = "idle"
    /\ s_tasks = <<>>
    /\ s_pc = "idle"
    /\ s_start = [neg |-> FALSE, mag |-> <<>>]
    /\ s_end = [neg |-> FALSE, mag |-> <<>>]
    /\ s_index = 1
    /\ s_parts = <<>>

\* an SRT file on disk, nothing written yet; the other subsystems idle
InitAss ==
    /\ t_pc = "idle"
    /\ t_sec = -1
    /\ t_hms = <<>>
    /\ t_back = -1
    /\ t_srt = [h |-> 0, m |-> 0, s |-> 0, ms |-> -1, str |-> <<>>]
    /\ t_ass = <<>>
    /\ manifest = <<>>
    /\ probe_duration = 0
    /\ m_pc = "start"
    /\ song_segments = <<>>
    /\ video_duration = <<>>
    /\ story_segments = <<>>
    /\ all_segments_sorted = <<>>
    /\ extracted_segments = <<>>
    /\ srt_blocks \in SrtFiles
    /\ ass_events = <<>>
    /\ a_pc = "idle"
    /\ clips = <<>>
    /\ v_pc = "idle"
    /\ v_probed = <<>>
    /\ v_baseline = <<>>
    /\ x_segments = <<>>
    /\ x_bad = {}
    /\ x_pc = "idle"
    /\ x_suffix = <<>>
    /\ x_outputs = <<>>
    /\ x_cuts = <<>>
    /\ x_dir = FALSE
    /\ x_disk = {}
    /\ x_prev = [pc |-> "idle", suffix |-> <<>>, disk |-> {}]
    /\ x_runs = 0
    /\ f_paths = <<>>
    /\ f_pc = "start"
    /\ f_sorted = <<>>
    /\ f_probed = <<>>
    /\ f_written = FALSE
    /\ f_lines = <<>>
    /\ f_copy = 0
    /\ f_output = "none"
    /\ j_file = [status |-> "ok", data |-> <<>>]
    /\ j_pc = "idle"
    /\ j_label = ""
    /\ j_ret = <<>>
    /\ j_chunks = [songs |-> <<>>, voice |-> <<>>]
    /\ j_dirs = {}
    /\ p_op = "none"
    /\ p_pc = "new"
    /\ p_extracted = <<>>
    /\ p_before = <<>>
    /\ p_disk = {}
    /\ p_completed = {}
    /\ p_concat = <<>>
    /\ b_tasks = <<>>
    /\ b_kind = "none"
    /\ b_pc = "idle"
    /\ b_fut = <<>>
    /\ b_out = {}
    /\ b_handled = {}
    /\ b_logged = {}
    /\ b_next = 1
    /\ u_op = "none"
    /\ u_lang = ""
    /\ u_pc = "idle"
    /\ u_srt = [exists |-> FALSE, blocks |-> <<>>]
    /\ u_ass = [exists |-> FALSE, style |-> "", events |-> <<>>]
    /\ u_before = [exists |-> FALSE, style |-> "", events |-> <<>>]
    /\ u_burn = "none"
    /\ j_src = [movie |-> FALSE, manifest |-> FALSE]
    /\ j_calls = 0
    /\ j_before = [pc |-> "idle", dirs |-> {}, src |-> [movie |-> FALSE, manifest |-> FALSE]]
    /\ b_probe = <<>>
    /\ v_error = [path |-> 0, has |-> <<>>, expected |-> <<>>]
    /\ s_duration = [neg |-> FALSE, mag |-> <<>>]
    /\ s_length = [neg |-> FALSE, mag |-> <<>>]
    /\ s_fast = "idle"
    /\ s_tasks = <<>>
    /\ s_pc = "idle"
    /\ s_start = [neg |-> FALSE, mag |-> <<>>]
    /\ s_end = [neg |-> FALSE, mag |-> <<>>]
    /\ s_index = 1
    /\ s_parts = <<>>

\* a list of video paths, nothing probed yet; the other subsystems idle
InitValid ==
    /\ t_pc = "idle"
    /\ t_sec = -1
    /\ t_hms = <<>>
    /\ t_back = -1
    /\ t_srt = [h |-> 0, m |-> 0, s |-> 0, ms |-> -1, str |-> <<>>]
    /\ t_ass = <<>>
    /\ manifest = <<>>
    /\ probe_duration = 0
    /\ m_pc = "start"
    /\ song_segments = <<>>
    /\ video_duration = <<>>
    /\ story_segments = <<>>
    /\ all_segments_sorted = <<>>
    /\ extracted_segments = <<>>
    /\ srt_blocks = <<>>
    /\ ass_events = <<>>
    /\ a_pc = "idle"
    /\ clips \in UNION {[1..n -> ClipFiles] : n \in 0..MaxClips}
    /\ v_pc = "idle"
    /\ v_probed = <<>>
    /\ v_baseline = <<>>
    /\ x_segments = <<>>
    /\ x_bad = {}
    /\ x_pc = "idle"
    /\ x_suffix = <<>>
    /\ x_outputs = <<>>
    /\ x_cuts = <<>>
    /\ x_dir = FALSE
    /\ x_disk = {}
    /\ x_prev = [pc |-> "idle", suffix |-> <<>>, disk |-> {}]
    /\ x_runs = 0
    /\ f_paths = <<>>
    /\ f_pc = "start"
    /\ f_sorted = <<>>
    /\ f_probed = <<>>
    /\ f_written = FALSE
    /\ f_lines = <<>>
    /\ f_copy = 0
    /\ f_output = "none"
    /\ j_file = [status |-> "ok", data |-> <<>>]
    /\ j_pc = "idle"
    /\ j_label = ""
    /\ j_ret = <<>>
    /\ j_chunks = [songs |-> <<>>, voice |-> <<>>]
    /\ j_dirs = {}
    /\ p_op = "none"
    /\ p_pc = "new"
    /\ p_extracted = <<>>
    /\ p_before = <<>>
    /\ p_disk = {}
    /\ p_completed = {}
    /\ p_concat = <<>>
    /\ b_tasks = <<>>
    /\ b_kind = "none"
    /\ b_pc = "idle"
    /\ b_fut = <<>>
    /\ b_out = {}
    /\ b_handled = {}
    /\ b_logged = {}
    /\ b_next = 1
    /\ u_op = "none"
    /\ u_lang = ""
    /\ u_pc = "idle"
    /\ u_srt = [exists |-> FALSE, blocks |-> <<>>]
    /\ u_ass = [exists |-> FALSE, style |-> "", events |-> <<>>]
    /\ u_before = [exists |-> FALSE, style |-> "", events |-> <<>>]
    /\ u_burn = "none"
    /\ j_src = [movie |-> FALSE, manifest |-> FALSE]
    /\ j_calls = 0
    /\ j_before = [pc |-> "idle", dirs |-> {}, src |-> [movie |-> FALSE, manifest |-> FALSE]]
    /\ b_probe = <<>>
    /\ v_error = [path |-> 0, has |-> <<>>, expected |-> <<>>]
    /\ s_duration = [neg |-> FALSE, mag |-> <<>>]
    /\ s_length = [neg |-> FALSE, mag |-> <<>>]
    /\ s_fast = "idle"
    /\ s_tasks = <<>>
    /\ s_pc = "idle"
    /\ s_start = [neg |-> FALSE, mag |-> <<>>]
    /\ s_end = [neg |-> FALSE, mag |-> <<>>]
    /\ s_index = 1
    /\ s_parts = <<>>

\* a segment list and a media file, an empty output directory; the other subsystems idle
InitCut ==
    /\ t_pc = "idle"
    /\ t_sec = -1
    /\ t_hms = <<>>
    /\ t_back = -1
    /\ t_srt = [h |-> 0, m |-> 0, s |-> 0, ms |-> -1, str |-> <<>>]
    /\ t_ass = <<>>
    /\ manifest = <<>>
    /\ probe_duration = 0
    /\ m_pc = "start"
    /\ song_segments = <<>>
    /\ video_duration = <<>>
    /\ story_segments = <<>>
    /\ all_segments_sorted = <<>>
    /\ extracted_segments = <<>>
    /\ srt_blocks = <<>>
    /\ ass_events = <<>>
    /\ a_pc = "idle"
    /\ clips = <<>>
    /\ v_pc = "idle"
    /\ v_probed = <<>>
    /\ v_baseline = <<>>
    /\ x_segments \in UNION {[1..n -> CutSegments] : n \in 0..MaxSegs}
    /\ x_bad \in SUBSET CutSpans
    /\ x_pc = "idle"
    /\ x_suffix = <<>>
    /\ x_outputs = <<>>
    /\ x_cuts = <<>>
    /\ x_dir = FALSE
    /\ x_disk = {}
    /\ x_prev = [pc |-> "idle", suffix |-> <<>>, disk |-> {}]
    /\ x_runs = 0
    /\ f_paths = <<>>
    /\ f_pc = "start"
    /\ f_sorted = <<>>
    /\ f_probed = <<>>
    /\ f_written = FALSE
    /\ f_lines = <<>>
    /\ f_copy = 0
    /\ f_output = "none"
    /\ j_file = [status |-> "ok", data |-> <<>>]
    /\ j_pc = "idle"
    /\ j_label = ""
    /\ j_ret = <<>>
    /\ j_chunks = [songs |-> <<>>, voice |-> <<>>]
    /\ j_dirs = {}
    /\ p_op = "none"
    /\ p_pc = "new"
    /\ p_extracted = <<>>
    /\ p_before = <<>>
    /\ p_disk = {}
    /\ p_completed = {}
    /\ p_concat = <<>>
    /\ b_tasks = <<>>
    /\ b_kind = "none"
    /\ b_pc = "idle"
    /\ b_fut = <<>>
    /\ b_out = {}
    /\ b_handled = {}
    /\ b_logged = {}
    /\ b_next = 1
    /\ u_op = "none"
    /\ u_lang = ""
    /\ u_pc = "idle"
    /\ u_srt = [exists |-> FALSE, blocks |-> <<>>]
    /\ u_ass = [exists |-> FALSE, style |-> "", events |-> <<>>]
    /\ u_before = [exists |-> FALSE, style |-> "", events |-> <<>>]
    /\ u_burn = "none"
    /\ j_src = [movie |-> FALSE, manifest |-> FALSE]
    /\ j_calls = 0
    /\ j_before = [pc |-> "idle", dirs |-> {}, src |-> [movie |-> FALSE, manifest |-> FALSE]]
    /\ b_probe = <<>>
    /\ v_error = [path |-> 0, has |-> <<>>, expected |-> <<>>]
    /\ s_duration = [neg |-> FALSE, mag |-> <<>>]
    /\ s_length = [neg |-> FALSE, mag |-> <<>>]
    /\ s_fast = "idle"
    /\ s_tasks = <<>>
    /\ s_pc = "idle"
    /\ s_start = [neg |-> FALSE, mag |-> <<>>]
    /\ s_end = [neg |-> FALSE, mag |-> <<>>]
    /\ s_index = 1
    /\ s_parts = <<>>

\* a list of video paths, no playlist and no output yet; the other subsystems idle
InitFast ==
    /\ t_pc = "idle"
    /\ t_sec = -1
    /\ t_hms = <<>>
    /\ t_back = -1
    /\ t_srt = [h |-> 0, m |-> 0, s |-> 0, ms |-> -1, str |-> <<>>]
    /\ t_ass = <<>>
    /\ manifest = <<>>
    /\ probe_duration = 0
    /\ m_pc = "start"
    /\ song_segments = <<>>
    /\ video_duration = <<>>
    /\ story_segments = <<>>
    /\ all_segments_sorted = <<>>
    /\ extracted_segments = <<>>
    /\ srt_blocks = <<>>
    /\ ass_events = <<>>
    /\ a_pc = "idle"
    /\ clips = <<>>
    /\ v_pc = "idle"
    /\ v_probed = <<>>
    /\ v_baseline = <<>>
    /\ x_segments = <<>>
    /\ x_bad = {}
    /\ x_pc = "idle"
    /\ x_suffix = <<>>
    /\ x_outputs = <<>>
    /\ x_cuts = <<>>
    /\ x_dir = FALSE
    /\ x_disk = {}
    /\ x_prev = [pc |-> "idle", suffix |-> <<>>, disk |-> {}]
    /\ x_runs = 0
    /\ f_paths \in FastPathLists
    /\ f_pc = "start"
    /\ f_sorted = <<>>
    /\ f_probed = <<>>
    /\ f_written = FALSE
    /\ f_lines = <<>>
    /\ f_copy = 0
    /\ f_output = "none"
    /\ j_file = [status |-> "ok", data |-> <<>>]
    /\ j_pc = "idle"
    /\ j_label = ""
    /\ j_ret = <<>>
    /\ j_chunks = [songs |-> <<>>, voice |-> <<>>]
    /\ j_dirs = {}
    /\ p_op = "none"
    /\ p_pc = "new"
    /\ p_extracted = <<>>
    /\ p_before = <<>>
    /\ p_disk = {}
    /\ p_completed = {}
    /\ p_concat = <<>>
    /\ b_tasks = <<>>
    /\ b_kind = "none"
    /\ b_pc = "idle"
    /\ b_fut = <<>>
    /\ b_out = {}
    /\ b_handled = {}
    /\ b_logged = {}
    /\ b_next = 1
    /\ u_op = "none"
    /\ u_lang = ""
    /\ u_pc = "idle"
    /\ u_srt = [exists |-> FALSE, blocks |-> <<>>]
    /\ u_ass = [exists |-> FALSE, style |-> "", events |-> <<>>]
    /\ u_before = [exists |-> FALSE, style |-> "", events |-> <<>>]
    /\ u_burn = "none"
    /\ j_src = [movie |-> FALSE, manifest |-> FALSE]
    /\ j_calls = 0
    /\ j_before = [pc |-> "idle", dirs |-> {}, src |-> [movie |-> FALSE, manifest |-> FALSE]]
    /\ b_probe = <<>>
    /\ v_error = [path |-> 0, has |-> <<>>, expected |-> <<>>]
    /\ s_duration = [neg |-> FALSE, mag |-> <<>>]
    /\ s_length = [neg |-> FALSE, mag |-> <<>>]
    /\ s_fast = "idle"
    /\ s_tasks = <<>>
    /\ s_pc = "idle"
    /\ s_start = [neg |-> FALSE, mag |-> <<>>]
    /\ s_end = [neg |-> FALSE, mag |-> <<>>]
    /\ s_index = 1
    /\ s_parts = <<>>

\* a VideoProcessor just constructed: a manifest file, nothing extracted; the other subsystems idle
InitProc ==
    /\ t_pc = "idle"
    /\ t_sec = -1
    /\ t_hms = <<>>
    /\ t_back = -1
    /\ t_srt = [h |-> 0, m |-> 0, s |-> 0, ms |-> -1, str |-> <<>>]
    /\ t_ass = <<>>
    /\ manifest = <<>>
    /\ probe_duration = 0
    /\ m_pc = "start"
    /\ song_segments = <<>>
    /\ video_duration = <<>>
    /\ story_segments = <<>>
    /\ all_segments_sorted = <<>>
    /\ extracted_segments = <<>>
    /\ srt_blocks = <<>>
    /\ ass_events = <<>>
    /\ a_pc = "idle"
    /\ clips = <<>>
    /\ v_pc = "idle"
    /\ v_probed = <<>>
    /\ v_baseline = <<>>
    /\ x_segments = <<>>
    /\ x_bad = {}
    /\ x_pc = "idle"
    /\ x_suffix = <<>>
    /\ x_outputs = <<>>
    /\ x_cuts = <<>>
    /\ x_dir = FALSE
    /\ x_disk = {}
    /\ x_prev = [pc |-> "idle", suffix |-> <<>>, disk |-> {}]
    /\ x_runs = 0
    /\ f_paths = <<>>
    /\ f_pc = "start"
    /\ f_sorted = <<>>
    /\ f_probed = <<>>
    /\ f_written = FALSE
    /\ f_lines = <<>>
    /\ f_copy = 0
    /\ f_output = "none"
    /\ j_file \in ProcFiles
    /\ j_pc = "idle"
    /\ j_label = ""
    /\ j_ret = <<>>
    /\ j_chunks = [songs |-> <<>>, voice |-> <<>>]
    /\ j_dirs = {}
    /\ p_op = "none"
    /\ p_pc = "new"
    /\ p_extracted = <<>>
    /\ p_before = <<>>
    /\ p_disk = {}
    /\ p_completed = {}
    /\ p_concat = <<>>
    /\ b_tasks = <<>>
    /\ b_kind = "none"
    /\ b_pc = "idle"
    /\ b_fut = <<>>
    /\ b_out = {}
    /\ b_handled = {}
    /\ b_logged = {}
    /\ b_next = 1
    /\ u_op = "none"
    /\ u_lang = ""
    /\ u_pc = "idle"
    /\ u_srt = [exists |-> FALSE, blocks |-> <<>>]
    /\ u_ass = [exists |-> FALSE, style |-> "", events |-> <<>>]
    /\ u_before = [exists |-> FALSE, style |-> "", events |-> <<>>]
    /\ u_burn = "none"
    /\ j_src = [movie |-> FALSE, manifest |-> FALSE]
    /\ j_calls = 0
    /\ j_before = [pc |-> "idle", dirs |-> {}, src |-> [movie |-> FALSE, manifest |-> FALSE]]
    /\ b_probe = <<>>
    /\ v_error = [path |-> 0, has |-> <<>>, expected |-> <<>>]
    /\ s_duration = [neg |-> FALSE, mag |-> <<>>]
    /\ s_length = [neg |-> FALSE, mag |-> <<>>]
    /\ s_fast = "idle"
    /\ s_tasks = <<>>
    /\ s_pc = "idle"
    /\ s_start = [neg |-> FALSE, mag |-> <<>>]
    /\ s_end = [neg |-> FALSE, mag |-> <<>>]
    /\ s_index = 1
    /\ s_parts = <<>>

\* a batch of tasks not yet submitted; the other subsystems idle
InitBatch ==
    /\ t_pc = "idle"
    /\ t_sec = -1
    /\ t_hms = <<>>
    /\ t_back = -1
    /\ t_srt = [h |-> 0, m |-> 0, s |-> 0, ms |-> -1, str |-> <<>>]
    /\ t_ass = <<>>
    /\ manifest = <<>>
    /\ probe_duration = 0
    /\ m_pc = "start"
    /\ song_segments = <<>>
    /\ video_duration = <<>>
    /\ story_segments = <<>>
    /\ all_segments_sorted = <<>>
    /\ extracted_segments = <<>>
    /\ srt_blocks = <<>>
    /\ ass_events = <<>>
    /\ a_pc = "idle"
    /\ clips = <<>>
    /\ v_pc = "idle"
    /\ v_probed = <<>>
    /\ v_baseline = <<>>
    /\ x_segments = <<>>
    /\ x_bad = {}
    /\ x_pc = "idle"
    /\ x_suffix = <<>>
    /\ x_outputs = <<>>
    /\ x_cuts = <<>>
    /\ x_dir = FALSE
    /\ x_disk = {}
    /\ x_prev = [pc |-> "idle", suffix |-> <<>>, disk |-> {}]
    /\ x_runs = 0
    /\ f_paths = <<>>
    /\ f_pc = "start"
    /\ f_sorted = <<>>
    /\ f_probed = <<>>
    /\ f_written = FALSE
    /\ f_lines = <<>>
    /\ f_copy = 0
    /\ f_output = "none"
    /\ j_file = [status |-> "ok", data |-> <<>>]
    /\ j_pc = "idle"
    /\ j_label = ""
    /\ j_ret = <<>>
    /\ j_chunks = [songs |-> <<>>, voice |-> <<>>]
    /\ j_dirs = {}
    /\ p_op = "none"
    /\ p_pc = "new"
    /\ p_extracted = <<>>
    /\ p_before = <<>>
    /\ p_disk = {}
    /\ p_completed = {}
    /\ p_concat = <<>>
    /\ b_tasks \in UNION {[1..n -> BOOLEAN] : n \in 0..MaxTasks}
    /\ b_kind = "none"
    /\ b_pc = "idle"
    /\ b_fut = <<>>
    /\ b_out = {}
    /\ b_handled = {}
    /\ b_logged = {}
    /\ b_next = 1
    /\ u_op = "none"
    /\ u_lang = ""
    /\ u_pc = "idle"
    /\ u_srt = [exists |-> FALSE, blocks |-> <<>>]
    /\ u_ass = [exists |-> FALSE, style |-> "", events |-> <<>>]
    /\ u_before = [exists |-> FALSE, style |-> "", events |-> <<>>]
    /\ u_burn = "none"
    /\ j_src = [movie |-> FALSE, manifest |-> FALSE]
    /\ j_calls = 0
    /\ j_before = [pc |-> "idle", dirs |-> {}, src |-> [movie |-> FALSE, manifest |-> FALSE]]
    /\ b_probe = <<>>
    /\ v_error = [path |-> 0, has |-> <<>>, expected |-> <<>>]
    /\ s_duration = [neg |-> FALSE, mag |-> <<>>]
    /\ s_length = [neg |-> FALSE, mag |-> <<>>]
    /\ s_fast = "idle"
    /\ s_tasks = <<>>
    /\ s_pc = "idle"
    /\ s_start = [neg |-> FALSE, mag |-> <<>>]
    /\ s_end = [neg |-> FALSE, mag |-> <<>>]
    /\ s_index = 1
    /\ s_parts = <<>>

\* a manifest file, present or not, and no project folders; the other subsystems idle
InitManifest ==
    /\ t_pc = "idle"
    /\ t_sec = -1
    /\ t_hms = <<>>
    /\ t_back = -1
    /\ t_srt = [h |-> 0, m |-> 0, s |-> 0, ms |-> -1, str |-> <<>>]
    /\ t_ass = <<>>
    /\ manifest = <<>>
    /\ probe_duration = 0
    /\ m_pc = "start"
    /\ song_segments = <<>>
    /\ video_duration = <<>>
    /\ story_segments = <<>>
    /\ all_segments_sorted = <<>>
    /\ extracted_segments = <<>>
    /\ srt_blocks = <<>>
    /\ ass_events = <<>>
    /\ a_pc = "idle"
    /\ clips = <<>>
    /\ v_pc = "idle"
    /\ v_probed = <<>>
    /\ v_baseline = <<>>
    /\ x_segments = <<>>
    /\ x_bad = {}
    /\ x_pc = "idle"
    /\ x_suffix = <<>>
    /\ x_outputs = <<>>
    /\ x_cuts = <<>>
    /\ x_dir = FALSE
    /\ x_disk = {}
    /\ x_prev = [pc |-> "idle", suffix |-> <<>>, disk |-> {}]
    /\ x_runs = 0
    /\ f_paths = <<>>
    /\ f_pc = "start"
    /\ f_sorted = <<>>
    /\ f_probed = <<>>
    /\ f_written = FALSE
    /\ f_lines = <<>>
    /\ f_copy = 0
    /\ f_output = "none"
    /\ j_file \in JsonFiles
    /\ j_pc = "idle"
    /\ j_label = ""
    /\ j_ret = <<>>
    /\ j_chunks = [songs |-> <<>>, voice |-> <<>>]
    /\ j_dirs \in ProjectTrees
    /\ p_op = "none"
    /\ p_pc = "new"
    /\ p_extracted = <<>>
    /\ p_before = <<>>
    /\ p_disk = {}
    /\ p_completed = {}
    /\ p_concat = <<>>
    /\ b_tasks = <<>>
    /\ b_kind = "none"
    /\ b_pc = "idle"
    /\ b_fut = <<>>
    /\ b_out = {}
    /\ b_handled = {}
    /\ b_logged = {}
    /\ b_next = 1
    /\ u_op = "none"
    /\ u_lang = ""
    /\ u_pc = "idle"
    /\ u_srt = [exists |-> FALSE, blocks |-> <<>>]
    /\ u_ass = [exists |-> FALSE, style |-> "", events |-> <<>>]
    /\ u_before = [exists |-> FALSE, style |-> "", events |-> <<>>]
    /\ u_burn = "none"
    /\ j_src \in {[movie |-> m, manifest |-> j_file.status # "absent"] : m \in BOOLEAN}
    /\ j_calls = 0
    /\ j_before = [pc |-> "idle", dirs |-> j_dirs, src |-> j_src]
    /\ b_probe = <<>>
    /\ v_error = [path |-> 0, has |-> <<>>, expected |-> <<>>]
    /\ s_duration = [neg |-> FALSE, mag |-> <<>>]
    /\ s_length = [neg |-> FALSE, mag |-> <<>>]
    /\ s_fast = "idle"
    /\ s_tasks = <<>>
    /\ s_pc = "idle"
    /\ s_start = [neg |-> FALSE, mag |-> <<>>]
    /\ s_end = [neg |-> FALSE, mag |-> <<>>]
    /\ s_index = 1
    /\ s_parts = <<>>

\* an SRT file and possibly an earlier timeline on disk; the other subsystems idle
InitBurn ==
    /\ t_pc = "idle"
    /\ t_sec = -1
    /\ t_hms = <<>>
    /\ t_back = -1
    /\ t_srt = [h |-> 0, m |-> 0, s |-> 0, ms |-> -1, str |-> <<>>]
    /\ t_ass = <<>>
    /\ manifest = <<>>
    /\ probe_duration = 0
    /\ m_pc = "start"
    /\ song_segments = <<>>
    /\ video_duration = <<>>
    /\ story_segments = <<>>
    /\ all_segments_sorted = <<>>
    /\ extracted_segments = <<>>
    /\ srt_blocks = <<>>
    /\ ass_events = <<>>
    /\ a_pc = "idle"
    /\ clips = <<>>
    /\ v_pc = "idle"
    /\ v_probed = <<>>
    /\ v_baseline = <<>>
    /\ x_segments = <<>>
    /\ x_bad = {}
    /\ x_pc = "idle"
    /\ x_suffix = <<>>
    /\ x_outputs = <<>>
    /\ x_cuts = <<>>
    /\ x_dir = FALSE
    /\ x_disk = {}
    /\ x_prev = [pc |-> "idle", suffix |-> <<>>, disk |-> {}]
    /\ x_runs = 0
    /\ f_paths = <<>>
    /\ f_pc = "start"
    /\ f_sorted = <<>>
    /\ f_probed = <<>>
    /\ f_written = FALSE
    /\ f_lines = <<>>
    /\ f_copy = 0
    /\ f_output = "none"
    /\ j_file = [status |-> "ok", data |-> <<>>]
    /\ j_pc = "idle"
    /\ j_label = ""
    /\ j_ret = <<>>
    /\ j_chunks = [songs |-> <<>>, voice |-> <<>>]
    /\ j_dirs = {}
    /\ p_op = "none"
    /\ p_pc = "new"
    /\ p_extracted = <<>>
    /\ p_before = <<>>
    /\ p_disk = {}
    /\ p_completed = {}
    /\ p_concat = <<>>
    /\ b_tasks = <<>>
    /\ b_kind = "none"
    /\ b_pc = "idle"
    /\ b_fut = <<>>
    /\ b_out = {}
    /\ b_handled = {}
    /\ b_logged = {}
    /\ b_next = 1
    /\ u_op = "none"
    /\ u_lang = ""
    /\ u_pc = "idle"
    /\ u_srt \in BurnSrtFiles
    /\ u_ass \in AssFiles
    /\ u_before = [exists |-> FALSE, style |-> "", events |-> <<>>]
    /\ u_burn = "none"
    /\ j_src = [movie |-> FALSE, manifest |-> FALSE]
    /\ j_calls = 0
    /\ j_before = [pc |-> "idle", dirs |-> {}, src |-> [movie |-> FALSE, manifest |-> FALSE]]
    /\ b_probe = <<>>
    /\ v_error = [path |-> 0, has |-> <<>>, expected |-> <<>>]
    /\ s_duration = [neg |-> FALSE, mag |-> <<>>]
    /\ s_length = [neg |-> FALSE, mag |-> <<>>]
    /\ s_fast = "idle"
    /\ s_tasks = <<>>
    /\ s_pc = "idle"
    /\ s_start = [neg |-> FALSE, mag |-> <<>>]
    /\ s_end = [neg |-> FALSE, mag |-> <<>>]
    /\ s_index = 1
    /\ s_parts = <<>>

\* a duration and a segment length; the other subsystems idle
InitSplit ==
    /\ t_pc = "idle"
    /\ t_sec = -1
    /\ t_hms = <<>>
    /\ t_back = -1
    /\ t_srt = [h |-> 0, m |-> 0, s |-> 0, ms |-> -1, str |-> <<>>]
    /\ t_ass = <<>>
    /\ manifest = <<>>
    /\ probe_duration = 0
    /\ m_pc = "start"
    /\ song_segments = <<>>
    /\ video_duration = <<>>
    /\ story_segments = <<>>
    /\ all_segments_sorted = <<>>
    /\ extracted_segments = <<>>
    /\ srt_blocks = <<>>
    /\ ass_events = <<>>
    /\ a_pc = "idle"
    /\ clips = <<>>
    /\ v_pc = "idle"
    /\ v_probed = <<>>
    /\ v_baseline = <<>>
    /\ x_segments = <<>>
    /\ x_bad = {}
    /\ x_pc = "idle"
    /\ x_suffix = <<>>
    /\ x_outputs = <<>>
    /\ x_cuts = <<>>
    /\ x_dir = FALSE
    /\ x_disk = {}
    /\ x_prev = [pc |-> "idle", suffix |-> <<>>, disk |-> {}]
    /\ x_runs = 0
    /\ f_paths = <<>>
    /\ f_pc = "start"
    /\ f_sorted = <<>>
    /\ f_probed = <<>>
    /\ f_written = FALSE
    /\ f_lines = <<>>
    /\ f_copy = 0
    /\ f_output = "none"
    /\ j_file = [status |-> "ok", data |-> <<>>]
    /\ j_pc = "idle"
    /\ j_label = ""
    /\ j_ret = <<>>
    /\ j_chunks = [songs |-> <<>>, voice |-> <<>>]
    /\ j_dirs = {}
    /\ p_op = "none"
    /\ p_pc = "new"
    /\ p_extracted = <<>>
    /\ p_before = <<>>
    /\ p_disk = {}
    /\ p_completed = {}
    /\ p_concat = <<>>
    /\ b_tasks = <<>>
    /\ b_kind = "none"
    /\ b_pc = "idle"
    /\ b_fut = <<>>
    /\ b_out = {}
    /\ b_handled = {}
    /\ b_logged = {}
    /\ b_next = 1
    /\ u_op = "none"
    /\ u_lang = ""
    /\ u_pc = "idle"
    /\ u_srt = [exists |-> FALSE, blocks |-> <<>>]
    /\ u_ass = [exists |-> FALSE, style |-> "", events |-> <<>>]
    /\ u_before = [exists |-> FALSE, style |-> "", events |-> <<>>]
    /\ u_burn = "none"
    /\ j_src = [movie |-> FALSE, manifest |-> FALSE]
    /\ j_calls = 0
    /\ j_before = [pc |-> "idle", dirs |-> {}, src |-> [movie |-> FALSE, manifest |-> FALSE]]
    /\ b_probe = <<>>
    /\ v_error = [path |-> 0, has |-> <<>>, expected |-> <<>>]
    /\ s_duration \in SplitDurations
    /\ s_length \in {x \in SplitLengths : <<s_duration, x>> \in SplitInputs}
    /\ s_fast = "idle"
    /\ s_tasks = <<>>
    /\ s_pc = "idle"
    /\ s_start = [neg |-> FALSE, mag |-> <<>>]
    /\ s_end = [neg |-> FALSE, mag |-> <<>>]
    /\ s_index = 1
    /\ s_parts = <<>>

SpecTime  == InitTime /\ [][NextTime]_vars
SpecMerge == InitMerge /\ [][NextMerge]_vars
SpecAss   == InitAss /\ [][NextAss]_vars
SpecValid == InitValid /\ [][NextValid]_vars
SpecCut   == InitCut /\ [][NextCut]_vars
SpecFast  == InitFast /\ [][NextFast]_vars
SpecProc  == InitProc /\ [][NextProc]_vars
SpecBatch == InitBatch /\ [][NextBatch]_vars
SpecManifest == InitManifest /\ [][NextManifest]_vars
SpecBurn == InitBurn /\ [][NextBurn]_vars
SpecSplit == InitSplit /\ [][NextSplit]_vars

----------------------------------------------------------------------------
(* Vocabulary of the properties *)

\* "00:00:10", "00:00:20", "00:01:00"
T_00_00_10 == <<"0", "0", ":", "0", "0", ":", "1", "0">>
T_00_00_20 == <<"0", "0", ":", "0", "0", ":", "2", "0">>
T_00_01_00 == <<"0", "0", ":", "0", "1", ":", "0", "0">>

Interval(a, b) == [start |-> a, end |-> b]

\* the start and end of every element of a sequence of segments or clips
Intervals(seq) == [i \in 1..Len(seq) |-> Interval(seq[i].start, seq[i].end)]

\* a start-sorted sequence of intervals tiles [0, dur): it begins at zero, ends
\* at dur, consecutive intervals meet exactly and none runs backwards
TilesInOrder(seq, dur) ==
    IF seq = <<>> THEN dur = hms0
    ELSE /\ seq[1].start = hms0
         /\ seq[Len(seq)].end = dur
         /\ \A i \in 1..(Len(seq) - 1) : seq[i].end = seq[i + 1].start
         /\ \A i \in 1..Len(seq) :
                time_to_seconds(seq[i].start) <= time_to_seconds(seq[i].end)

\* the union of the intervals is exactly [0, dur) with no overlap
Covers(seq, dur) ==
    LET s(i) == time_to_seconds(seq[i].start)
        e(i) == time_to_seconds(seq[i].end)
        d    == time_to_seconds(dur)
    IN /\ \A i \in 1..Len(seq) : 0 <= s(i) /\ s(i) <= e(i) /\ e(i) <= d
       /\ \A i, j \in 1..Len(seq) : i # j => ~(s(i) < e(j) /\ s(j) < e(i))
       /\ \A u \in 0..((d \div 1000) - 1) :
              \E i \in 1..Len(seq) : s(i) <= Sec(u) /\ Sec(u) < e(i)

\* labeled intervals are start-ordered and do not overlap
StartOrdered(song) ==
    /\ \A i \in 1..Len(song) :
            time_to_seconds(song[i].start) <= time_to_seconds(song[i].end)
    /\ \A i \in 1..(Len(song) - 1) :
            time_to_seconds(song[i].end) <= time_to_seconds(song[i + 1].start)

\* the gaps before, between and after the labeled intervals, in order, the
\* empty ones left out
Gaps(song, dur) ==
    LET n == Len(song)
        prevEnd(i) == IF i = 1 THEN hms0 ELSE song[i - 1].end
        cand == [i \in 1..(n + 1) |->
                    Interval(prevEnd(i), IF i <= n THEN song[i].start ELSE dur)]
    IN SelectSeq(cand, LAMBDA c : c.start # c.end)

\* labeled intervals cover [0, dur) on their own
CoversAlone(song, dur) ==
    /\ song # <<>>
    /\ song[1].start = hms0
    /\ song[Len(song)].end = dur
    /\ \A i \in 1..(Len(song) - 1) : song[i].end = song[i + 1].start

\* the manifest is a set of whole-second records inside the media, with
\* distinct ids, that do not overlap one another; the order of the array is
\* left open
WellFormedManifest ==
    /\ manifest # <<>>
    /\ \A i, j \in 1..Len(manifest) : i # j => manifest[i].id # manifest[j].id
    /\ \A i \in 1..Len(manifest) :
            /\ manifest[i].start % 1000 = 0
            /\ manifest[i].end % 1000 = 0
            /\ manifest[i].end <= probe_duration
    /\ \A i, j \in 1..Len(manifest) :
            i # j => ~(/\ manifest[i].start < manifest[j].end
                       /\ manifest[j].start < manifest[i].end)

----------------------------------------------------------------------------
(* Properties of the partition and of the merge plan *)

\* C1: for any manifest and any duration, the labeled intervals together with
\* the derived ones, sorted by start, tile [0, totalDuration): they start at
\* 00:00:00, meet exactly, do not overlap and end at totalDuration.  Stated
\* here for the manifests whose records are whole-second, inside the media and
\* pairwise disjoint, in any array order.
C1_PartitionTiles ==
    (m_pc = "story" /\ WellFormedManifest) =>
        TilesInOrder(merge_chronological(story_segments, song_segments),
                     video_duration)

\* C2: the merge plan handed to reassembly covers exactly [0, totalDuration)
\* with no gap and no overlap.  Stated here for the manifests whose records
\* are whole-second, inside the media and pairwise disjoint.
C2_MergePlanCovers ==
    WellFormedManifest =>
        /\ m_pc = "extracted" => Covers(extracted_segments, video_duration)
        /\ m_pc = "merged" => Covers(all_segments_sorted, video_duration)

\* C3: for start-ordered, non-overlapping labeled intervals get_story_segments
\* returns exactly the gaps in order, the final one only when the last end
\* differs from the duration; [00:00:10, 00:00:20] with duration 00:01:00
\* gives [00:00:00, 00:00:10] and [00:00:20, 00:01:00].
C3_StoryIsGaps ==
    (m_pc = "story" /\ StartOrdered(song_segments)) =>
        /\ story_segments = Gaps(song_segments, video_duration)
        /\ (song_segments = <<Interval(T_00_00_10, T_00_00_20)>>
            /\ video_duration = T_00_01_00)
           => story_segments = <<Interval(hms0, T_00_00_10),
                                 Interval(T_00_00_20, T_00_01_00)>>

C3_Witness ==
    /\ m_pc = "story"
    /\ song_segments = <<Interval(T_00_00_10, T_00_00_20)>>
    /\ video_duration = T_00_01_00
    /\ Len(story_segments) = 2

\* C4: labeled intervals that already cover [0, totalDuration) with no gap
\* give an empty derived partition.
C4_FullCoverGivesEmpty ==
    (m_pc = "story" /\ CoversAlone(song_segments, video_duration)) =>
        story_segments = <<>>

C4_Witness ==
    /\ m_pc = "story"
    /\ Len(song_segments) = 2
    /\ CoversAlone(song_segments, video_duration)
    /\ story_segments = <<>>

\* C5: every interval of the manifest reader and of the complement derivation
\* has end > start and non-negative bounds, for records with numeric end > start.
C5_EndAfterStart ==
    /\ m_pc \in {"labeled", "duration", "story", "merged"} =>
          \A i \in 1..Len(song_segments) :
              /\ 0 <= time_to_seconds(song_segments[i].start)
              /\ time_to_seconds(song_segments[i].start)
                    < time_to_seconds(song_segments[i].end)
    /\ m_pc \in {"story", "merged"} =>
          \A i \in 1..Len(story_segments) :
              /\ 0 <= time_to_seconds(story_segments[i].start)
              /\ time_to_seconds(story_segments[i].start)
                    < time_to_seconds(story_segments[i].end)

----------------------------------------------------------------------------
(* Properties of the time conversions *)

\* C6: for every whole number of seconds s, time_to_seconds(seconds_to_hms(s))
\* = s; seconds_to_hms floors to whole seconds and writes three fields of at
\* least two digits, zero padded (exactly two for minutes and seconds, and for
\* hours below 100).
C6_RoundTrip ==
    t_pc = "sec" =>
        LET p == split(t_hms, ":")
        IN /\ t_sec % 1000 = 0 => t_back = t_sec
           /\ t_back = Sec(t_sec \div 1000)
           /\ Len(p) = 3
           /\ Len(p[2]) = 2 /\ Len(p[3]) = 2
           /\ Len(p[1]) >= 2
           /\ t_sec < Sec(360000) => Len(p[1]) = 2

C6_Witness ==
    /\ t_pc = "sec"
    /\ t_sec = Sec(3661)
    /\ t_back = Sec(3661)

\* C7: convert_srt_time_to_ass maps HH:MM:SS,mmm to H:MM:SS.cc: the hour loses
\* its leading zeros, milliseconds are truncated to centiseconds, a missing
\* millisecond part gives .00; 00:00:01,500 gives 0:00:01.50 and 01:02:03,009
\* gives 1:02:03.00.
C7_SrtToAss ==
    t_pc = "ass" =>
        /\ t_ass = str(t_srt.h) \o <<":">> \o fmt02(t_srt.m) \o <<":">>
                   \o fmt02(t_srt.s) \o <<".">>
                   \o fmt02(IF t_srt.ms < 0 THEN 0 ELSE t_srt.ms \div 10)
        /\ t_srt.str = <<"0", "0", ":", "0", "0", ":", "0", "1", ",", "5", "0", "0">>
              => t_ass = <<"0", ":", "0", "0", ":", "0", "1", ".", "5", "0">>
        /\ t_srt.str = <<"0", "1", ":", "0", "2", ":", "0", "3", ",", "0", "0", "9">>
              => t_ass = <<"1", ":", "0", "2", ":", "0", "3", ".", "0", "0">>

C7_Witness ==
    /\ t_pc = "ass"
    /\ t_srt.str = <<"0", "1", ":", "0", "2", ":", "0", "3", ",", "0", "0", "9">>
    /\ t_ass = <<"1", ":", "0", "2", ":", "0", "3", ".", "0", "0">>

----------------------------------------------------------------------------
(* Properties of the subtitle timeline *)

\* centiseconds of an ASS timestamp "H:MM:SS.cc"
AssCs(a) ==
    LET p == split(a, ".") IN time_to_seconds(p[1]) \div 10 + float(p[2])

\* milliseconds of an SRT timestamp "HH:MM:SS,mmm"
SrtMs(x) ==
    LET p == split(x, ",") IN time_to_seconds(p[1]) + float(p[2])

\* the cues of the SRT file: the blocks that carry at least one text line
Cues == SelectSeq(srt_blocks, LAMBDA b : b.lines >= 3)

\* the cues with their timestamps as written to the timeline
WrittenCues ==
    [i \in 1..Len(Cues) |->
        Interval(convert_srt_time_to_ass(Cues[i].start),
                 convert_srt_time_to_ass(Cues[i].end))]

Visible == SelectSeq(ass_events, LAMBDA ev : ~ev.filler)
Fillers == SelectSeq(ass_events, LAMBDA ev : ev.filler)

\* the non-empty gaps before each cue, the first one measured from `first`
FillerGaps(cues, first) ==
    LET prevEnd(i) == IF i = 1 THEN first ELSE cues[i - 1].end
        cand == [i \in 1..Len(cues) |-> Interval(prevEnd(i), cues[i].start)]
    IN SelectSeq(cand, LAMBDA c : c.start # c.end)

\* every filler stands immediately before the visible event it leads up to
FillersPlaced ==
    \A k \in 1..Len(ass_events) :
        ass_events[k].filler =>
            /\ k < Len(ass_events)
            /\ ~ass_events[k + 1].filler
            /\ ass_events[k + 1].start = ass_events[k].end

\* "0:00:01.00", "0:00:02.00", "0:00:03.00"
A_0_00_01 == <<"0", ":", "0", "0", ":", "0", "1", ".", "0", "0">>
A_0_00_02 == <<"0", ":", "0", "0", ":", "0", "2", ".", "0", "0">>
A_0_00_03 == <<"0", ":", "0", "0", ":", "0", "3", ".", "0", "0">>

CueBlock(a, b) == [lines |-> 3, start |-> SrtOfMs(a), end |-> SrtOfMs(b)]

\* each cue starts no earlier than the cue before it ends
CuesInOrder ==
    \A i \in 1..(Len(Cues) - 1) : SrtMs(Cues[i].end) <= SrtMs(Cues[i + 1].start)

\* each cue lasts and starts no earlier than the cue before it starts
StartsInOrder ==
    /\ \A i \in 1..Len(Cues) : SrtMs(Cues[i].start) < SrtMs(Cues[i].end)
    /\ \A i \in 1..(Len(Cues) - 1) :
            SrtMs(Cues[i].start) <= SrtMs(Cues[i + 1].start)

\* C8 as stated: for a time-ordered cue list, one visible event per cue and
\* exactly one filler per consecutive pair of cues whose end and start differ,
\* spanning that gap, and no other filler.
C8_OneFillerPerPair ==
    (a_pc = "written" /\ StartsInOrder /\ CuesInOrder) =>
        /\ Intervals(Visible) = WrittenCues
        /\ Intervals(Fillers) =
              FillerGaps(WrittenCues,
                         IF WrittenCues = <<>> THEN ass0 ELSE WrittenCues[1].start)
        /\ FillersPlaced

\* C8 amended: one visible event per cue, one filler per consecutive pair of
\* cues whose written end and start differ, and one leading filler
\* [0:00:00.00, firstCue.start) when the first cue does not start at zero;
\* cues 1.0-2.0, 2.0-3.0 give two visible events and the leading filler only,
\* cues 1.0-2.0, 3.0-4.0 give the leading filler and one filler [2.0, 3.0).
C8_FillerPerGapFromZero ==
    a_pc = "written" =>
        /\ Intervals(Visible) = WrittenCues
        /\ Intervals(Fillers) = FillerGaps(WrittenCues, ass0)
        /\ FillersPlaced
        /\ srt_blocks = <<CueBlock(1000, 2000), CueBlock(2000, 3000)>>
              => /\ Len(Visible) = 2
                 /\ Intervals(Fillers) = <<Interval(ass0, A_0_00_01)>>
        /\ srt_blocks = <<CueBlock(1000, 2000), CueBlock(3000, 4000)>>
              => /\ Len(Visible) = 2
                 /\ Intervals(Fillers) = <<Interval(ass0, A_0_00_01),
                                           Interval(A_0_00_02, A_0_00_03)>>

C8_Witness ==
    /\ a_pc = "written"
    /\ srt_blocks = <<CueBlock(1000, 2000), CueBlock(3000, 4000)>>
    /\ Len(ass_events) = 4

\* the timeline is ordered, no event runs backwards, no two events overlap and
\* every stretch of [firstCue.start, lastCue.end] lies in exactly one event
TimelineOK ==
    LET n    == Len(ass_events)
        s(k) == AssCs(ass_events[k].start)
        e(k) == AssCs(ass_events[k].end)
        lo   == AssCs(WrittenCues[1].start)
        hi   == AssCs(WrittenCues[Len(WrittenCues)].end)
        marks == {x \in {s(k) : k \in 1..n} \cup {e(k) : k \in 1..n} :
                    lo <= x /\ x <= hi}
    IN /\ \A k \in 1..(n - 1) : s(k) <= s(k + 1)
       /\ \A k \in 1..n : s(k) <= e(k)
       /\ \A k, l \in 1..n : k # l => ~(s(k) < e(l) /\ s(l) < e(k))
       /\ WrittenCues # <<>> =>
            \A a, b \in marks :
                (a < b /\ ~\E c \in marks : a < c /\ c < b) =>
                    Cardinality({k \in 1..n : s(k) <= a /\ b <= e(k)}) = 1

\* C9 as stated: in the timeline written by create_ass_file for cues in start
\* order the events are in non-decreasing start order, have start <= end, do
\* not overlap, and cover every instant of [firstCue.start, lastCue.end]
\* exactly once.
C9_TimelineAlwaysOK ==
    (a_pc = "written" /\ StartsInOrder) => TimelineOK

\* C9 amended: the same, for cue lists in which every cue has start <= end and
\* starts no earlier than the previous cue ends.
C9_TimelineOKForOrderedCues ==
    (a_pc = "written" /\ CuesInOrder) => TimelineOK

C9_Witness ==
    /\ a_pc = "written"
    /\ srt_blocks = <<CueBlock(1000, 2000), CueBlock(2005, 4000)>>
    /\ Len(ass_events) = 3
    /\ TimelineOK

----------------------------------------------------------------------------
(* Properties of the format validation *)

\* every path exists and can be probed
AllProbed == \A i \in 1..Len(clips) : clips[i].exists /\ clips[i].probe_ok

\* every clip has the (codec, width, height) of the first
Uniform == \A i \in 1..Len(clips) : clips[i].info = clips[1].info

\* C10: validate_video_formats returns normally when every clip has the
\* (codec, width, height) of the first clip and raises when a clip differs
\* from the first in any of the three fields.
C10_ValidateUniform ==
    (v_pc # "idle" /\ AllProbed) =>
        /\ Uniform => v_pc = "ok"
        /\ ~Uniform => v_pc = "ValueError"

C10_Witness ==
    /\ v_pc = "ValueError"
    /\ AllProbed
    /\ Len(clips) = 3
    /\ clips[1].info = clips[2].info
    /\ clips[3].info[1] = clips[1].info[1]
    /\ clips[3].info[2] # clips[1].info[2]

----------------------------------------------------------------------------
(* Extraction call by call: ids, idempotence, siblings *)

DecimalDigits == {"0", "1", "2", "3", "4", "5", "6", "7", "8", "9"}

\* a JSON id that is an integer or the decimal literal of one
ParsesAsInteger(j) ==
    \/ j.kind = "int"
    \/ j.kind = "str" /\ j.text # <<>>
                      /\ \A i \in 1..Len(j.text) : j.text[i] \in DecimalDigits

\* the ffmpeg cut of segment i of x_segments exits with an error
CutFails(i) == <<x_segments[i].start, x_segments[i].end>> \in x_bad

\* C11: after a call of FFmpegHandler.extract_segments, for every interval whose
\* id is not an integer the call has raised (a ValueError, unless the cut of an
\* earlier interval failed first), no ffmpeg cut was invoked for that interval
\* and no clip with its id is in the outputs
C11_BadIdRaises ==
    x_pc # "idle" =>
        \A i \in 1..Len(x_segments) :
            ~ParsesAsInteger(x_segments[i].id) =>
                /\ x_pc \in {"ValueError", "ffmpeg.Error"}
                /\ x_pc = "ValueError" \/ \E k \in 1..(i - 1) : CutFails(k)
                /\ \A c \in 1..Len(x_cuts) : x_cuts[c].i # i
                /\ \A o \in 1..Len(x_outputs) : x_outputs[o].id # x_segments[i].id

\* the first interval was cut and recorded, the second has no id: ValueError
C11_Witness ==
    /\ x_pc = "ValueError"
    /\ Len(x_segments) = 2
    /\ x_segments[2].id = J_None
    /\ Len(x_cuts) = 1
    /\ Len(x_outputs) = 1

\* C12: when a call of extract_segments returned and the next call is made on
\* the same media, segments and suffix, the next call returns too, every file it
\* cuts is a path the first call wrote, and the clip files in the output
\* directory are the same set as after the first call
C12_Idempotent ==
    (x_prev.pc = "returned" /\ x_suffix = x_prev.suffix) =>
        /\ x_pc = "returned"
        /\ \A c \in 1..Len(x_cuts) : x_cuts[c].file \in x_prev.disk
        /\ x_disk = x_prev.disk

\* two intervals were cut into two files and then cut again with the same suffix
C12_Witness ==
    /\ x_prev.pc = "returned"
    /\ x_suffix = x_prev.suffix
    /\ x_pc = "returned"
    /\ Len(x_cuts) = 2
    /\ Cardinality(x_disk) = 2

\* C17 as stated, on FFmpegHandler.extract_segments: after a call every interval
\* whose own id is an integer and whose own cut succeeds has been attempted and
\* its output produced, whatever happened to the other intervals
C17_SiblingsAttempted ==
    x_pc # "idle" =>
        \A i \in 1..Len(x_segments) :
            (ParsesAsInteger(x_segments[i].id) /\ ~CutFails(i)) =>
                \E c \in 1..Len(x_cuts) :
                    x_cuts[c].i = i /\ x_cuts[c].file \in x_disk

----------------------------------------------------------------------------
(* The merge plan of chunk_structure.py *)

\* the clips cut from both partitions, song clips first, before any sorting
ExtractedClips ==
    FFmpeg_extract_segments(extract_segments_by_label(manifest, "song"),
                            "song_files", "hi")
    \o FFmpeg_extract_segments(extract_segments_by_label(manifest, "voice"),
                               "story_files", "hi")

\* adjacent clips ascend in id, and in start where the ids are equal
SortedByIdStart(seq) ==
    \A i \in 1..(Len(seq) - 1) :
        \/ seq[i].id < seq[i + 1].id
        \/ /\ seq[i].id = seq[i + 1].id
           /\ time_to_seconds(seq[i].start) <= time_to_seconds(seq[i + 1].start)

\* s and t hold the same elements the same number of times
IsPermutation(s, t) ==
    /\ Len(s) = Len(t)
    /\ \A k \in 1..Len(s) :
          Cardinality({i \in 1..Len(s) : s[i] = s[k]})
              = Cardinality({i \in 1..Len(t) : t[i] = s[k]})

UniqueIds(data) ==
    \A i, j \in 1..Len(data) : i # j => data[i].id # data[j].id

\* a record that starts later has a larger id
IdsAscendWithStart(data) ==
    \A i, j \in 1..Len(data) :
        data[i].start < data[j].start => data[i].id < data[j].id

\* adjacent clips do not descend in start time
StartAscending(seq) ==
    \A i \in 1..(Len(seq) - 1) :
        time_to_seconds(seq[i].start) <= time_to_seconds(seq[i + 1].start)

\* the manifest has a record of each label
BothPartitions(data) ==
    \A l \in Labels : \E i \in 1..Len(data) : data[i].label = l

\* C14 as stated: for every manifest with unique integer ids and clips of both
\* partitions the merge plan, of Merger.py and of chunk_structure.py alike,
\* ascends in start time
C14_Chronological ==
    /\ m_pc = "merged" => StartAscending(all_segments_sorted)
    /\ (/\ m_pc \in {"extracted", "concatenated"}
        /\ UniqueIds(manifest)
        /\ BothPartitions(manifest)) =>
            StartAscending(extracted_segments)

\* C14 amended: the plan of Merger.py ascends in start time for every manifest;
\* the plan of chunk_structure.py ascends in start time for every manifest
\* whose ids are unique integers that ascend with the records' start times
C14_ChronologicalForOrderedIds ==
    /\ m_pc = "merged" => StartAscending(all_segments_sorted)
    /\ (/\ m_pc \in {"extracted", "concatenated"}
        /\ UniqueIds(manifest)
        /\ IdsAscendWithStart(manifest)) =>
            StartAscending(extracted_segments)

\* a song and a voice record, listed against their start order with ids in
\* start order, were merged into the plan 00:00:00, 00:00:10
C14_Witness ==
    /\ m_pc = "extracted"
    /\ Len(manifest) = 2
    /\ manifest[1].label # manifest[2].label
    /\ manifest[1].start > manifest[2].start
    /\ UniqueIds(manifest)
    /\ IdsAscendWithStart(manifest)
    /\ extracted_segments[1].start = hms0
    /\ extracted_segments[2].start = T_00_00_10

----------------------------------------------------------------------------
(* The fast merge *)

\* every path exists, can be probed and has the stream format of the first
SameFormat(paths) ==
    \A i \in 1..Len(paths) :
        /\ paths[i].exists
        /\ paths[i].probe_ok
        /\ paths[i].info = paths[1].info

ValidationErrors == {"FileNotFoundError", "RuntimeError", "ValueError"}

\* C15: in merge_videos_ffmpeg_fast the playlist is written, the stream-copy
\* concatenation invoked and the output produced only after every ordered clip
\* has been probed and found of one format; when a clip is missing, cannot be
\* probed or differs in format the merge raises with no playlist written, no
\* concatenation invoked and no output produced by any other means
C15_ValidateBeforeConcat ==
    /\ (f_written \/ f_copy > 0 \/ f_output # "none") =>
            /\ SameFormat(f_sorted)
            /\ f_probed = [i \in 1..Len(f_sorted) |-> i]
            /\ f_pc \in {"validated", "playlist", "done", "MergeRuntimeError"}
    /\ f_copy > 0 => f_written
    /\ (f_pc # "start" /\ ~SameFormat(f_sorted)) =>
            /\ f_pc \in ValidationErrors
            /\ ~f_written
            /\ f_copy = 0
            /\ f_output = "none"

\* part10 and part2 were put in natural order, validated, listed and
\* concatenated by stream copy
C15_Witness ==
    /\ f_pc = "done"
    /\ f_copy = 1
    /\ f_output = "copy"
    /\ Len(f_paths) = 2
    /\ f_paths[1].name = 10
    /\ f_lines = <<2, 10>>

----------------------------------------------------------------------------
(* The barrier between extraction and reassembly *)

\* the number of song and voice records of the manifest
LabelledRecords ==
    Cardinality({i \in 1..Len(j_file.data) : j_file.data[i].label \in Labels})

\* a clip list with one clip on disk for every song and voice record
FullyPopulated(list) ==
    /\ Len(list) = LabelledRecords
    /\ \A i \in 1..Len(list) : list[i].file \in p_disk

\* C16: over every sequence of extract_segments and concatenate_segments calls
\* the list handed to concat_videos, and the stored list, is one returned by an
\* extract_segments call that completed, with a clip on disk for every record;
\* concatenate_segments raises ValueError while no call has completed; and an
\* extract_segments call that raises leaves the stored list as it was
C16_NoPartialReassembly ==
    /\ p_concat # <<>> => (p_concat \in p_completed /\ FullyPopulated(p_concat))
    /\ p_extracted # <<>> =>
            (p_extracted \in p_completed /\ FullyPopulated(p_extracted))
    /\ (p_op = "concatenate" /\ p_completed = {}) =>
            (p_pc = "ValueError" /\ p_concat = <<>>)
    /\ (p_op = "extract" /\ p_pc # "returned") => p_extracted = p_before

\* two clips were extracted and concatenated; a later extract_segments call
\* failed at an ffmpeg cut and the two clips are still the stored list
C16_Witness ==
    /\ p_op = "extract"
    /\ p_pc = "ffmpeg.Error"
    /\ Len(p_extracted) = 2
    /\ p_extracted = p_before
    /\ p_concat = p_extracted

----------------------------------------------------------------------------
(* Batches on a worker pool *)

\* when a pool batch has ended, every task whose own work succeeds has run and
\* produced its output, whatever happened to its siblings
PoolSiblingsRun ==
    (b_pc \in {"returned", "raised"} /\ b_fut # <<>>) =>
        \A i \in 1..Len(b_tasks) : b_tasks[i] => i \in b_out

\* C18 as stated: a batch operation with a failed task does not return to its
\* caller the way a fully successful batch does (a plain return of None)
C18_FailureReported ==
    b_pc = "returned" => \A i \in 1..Len(b_fut) : b_fut[i] # "failed"

----------------------------------------------------------------------------
(* The manifest readers *)

\* the positions of the manifest records with the label, ascending
LabelPositions(data, label) == {i \in 1..Len(data) : data[i].label = label}

\* the k-th smallest element of a set of positions
KthPosition(S, k) ==
    CHOOSE i \in S : Cardinality({j \in S : j <= i}) = k

\* C19: on a readable manifest extract_segments_by_label(label) returns without
\* error one segment per record of that label, in manifest order, the k-th
\* carrying the id of the k-th such record unchanged, the label, and the
\* record's start and end passed through seconds_to_hms; it returns the empty
\* list when no record has the label
C19_ByLabelExact ==
    (j_label # "" /\ j_file.status = "ok") =>
        LET pos == LabelPositions(j_file.data, j_label)
        IN /\ j_pc = "returned"
           /\ Len(j_ret) = Cardinality(pos)
           /\ \A k \in 1..Len(j_ret) :
                LET rec == j_file.data[KthPosition(pos, k)]
                IN /\ j_ret[k].id = rec.id
                   /\ j_ret[k].label = j_label
                   /\ j_ret[k].start = seconds_to_hms(rec.start)
                   /\ j_ret[k].end = seconds_to_hms(rec.end)

\* of a voice record and a song record with id "a1" ending at 20.5 s, the call
\* for "song" returned the second alone, id "a1", ending 00:00:20
C19_Witness ==
    /\ j_pc = "returned"
    /\ j_label = "song"
    /\ Len(j_file.data) = 2
    /\ j_file.data[1].label = "voice"
    /\ j_file.data[2].end = 20500
    /\ Len(j_ret) = 1
    /\ j_ret[1].id = J_str(<<"a", "1">>)
    /\ j_ret[1].end = T_00_00_20

\* C20 as stated: every operation that reads an absent or unparseable manifest
\* ends by raising that failure to its caller; none runs to its end on an empty
\* partition
C20_ManifestErrorFatal ==
    (j_pc \notin {"idle", "MovieNotFoundError"} /\ j_file.status # "ok") =>
        j_pc \in {"FileNotFoundError", "JSONDecodeError"}

----------------------------------------------------------------------------
(* Properties of the subtitle conversion on disk *)

\* the language code the conversion works with: create_ass_file's argument, or
\* the code burn_subtitles looks up for its language name ("" when it has none)
StyleKey ==
    IF u_op = "create_ass_file" THEN u_lang
    ELSE IF u_lang \in DOMAIN LANGUAGES THEN LANGUAGES[u_lang] ELSE ""

\* the conversion was invoked for a language code without a style entry
NoStyleEntry == u_pc # "idle" /\ StyleKey \notin LANGUAGE_CONFIG_keys

\* C21: a subtitle conversion for a language code with no entry in the style
\* configuration ends in an error that reaches the caller (create_ass_file and
\* burn_subtitles both end in KeyError, and no ffmpeg run follows); the file
\* at the timeline path is never a timeline with a default or an empty style.
C21_UnknownStyleFails ==
    NoStyleEntry =>
        /\ u_pc = "KeyError"
        /\ u_burn = "none"
        /\ u_ass.exists => u_ass.style \in LANGUAGE_CONFIG_keys

C21_Witness ==
    /\ u_op = "burn_subtitles"
    /\ u_lang = "English"
    /\ u_srt.exists /\ u_srt.blocks # <<>>
    /\ u_pc = "KeyError"

\* C30: when create_ass_file fails because the language code has no style
\* entry, the file at the timeline path is what it was before the call: none
\* is created, and an existing timeline keeps its style and its events.
C30_FailedLookupLeavesFiles ==
    (u_op = "create_ass_file" /\ NoStyleEntry) =>
        /\ u_pc = "KeyError"
        /\ u_ass = u_before

C30_Witness ==
    /\ u_op = "create_ass_file"
    /\ u_lang = "en"
    /\ u_pc = "KeyError"
    /\ u_srt.exists
    /\ u_before.exists /\ u_before.events # <<>>
    /\ u_ass = u_before

----------------------------------------------------------------------------
(* Properties of the project tree *)

\* C22 as stated: create_structure invoked again (move_files enabled) on the
\* tree its previous invocation populated completes without error and leaves
\* the folders, the relocated movie and manifest and the upload paths as they
\* were, relocating nothing whose destination exists.
C22_CreateStructureIdempotent ==
    (j_calls >= 2 /\ j_before.pc = "created") =>
        /\ j_pc = "created"
        /\ j_dirs = j_before.dirs
        /\ j_src = j_before.src
        /\ MovedFiles(j_file) \cap j_before.dirs \subseteq j_dirs

----------------------------------------------------------------------------
(* Properties of the external tool runs *)

\* C23 as stated, for split_video_fast: the probe is run once, and when the
\* probe or a cut exits with a failure the operation ends by raising to its
\* caller; it does not return as a successful split does.
C23_ToolFailureRaised ==
    /\ Len(b_probe) <= 1
    /\ (/\ b_kind = "split_video_fast"
        /\ b_pc \in {"returned", "raised"}
        /\ \/ \E k \in 1..Len(b_probe) : b_probe[k] = "failed"
           \/ \E i \in 1..Len(b_fut) : b_fut[i] = "failed")
          => b_pc = "raised"

----------------------------------------------------------------------------
(* Properties of the output paths of a batch *)

\* the intervals of the manifest that make up the batch of one label
BatchIntervals(label) ==
    {j_file.data[i] : i \in LabelPositions(j_file.data, label)}

----------------------------------------------------------------------------
(* Properties of the partition under reordering of the manifest *)

\* the elements of a sequence
Range(seq) == {seq[i] : i \in 1..Len(seq)}

\* the manifest with its records in chronological order
Chronological(data) == sorted(data, [i \in 1..Len(data) |-> <<data[i].start>>])

\* C25 as stated: whatever the order of the records in the manifest array,
\* extract_segments_by_label followed by get_story_segments yields the same
\* set of labeled and of derived intervals as for the manifest in
\* chronological order.  Stated for the manifests whose records are
\* whole-second, inside the media and pairwise disjoint.
C25_OrderIndependent ==
    (m_pc = "story" /\ WellFormedManifest) =>
        \A label \in Labels :
            song_segments = Merger_extract_segments_by_label(manifest, label) =>
                LET labeled == Merger_extract_segments_by_label(
                                   Chronological(manifest), label)
                IN /\ Range(song_segments) = Range(labeled)
                   /\ Range(story_segments)
                        = Range(get_story_segments(labeled, video_duration))

----------------------------------------------------------------------------
(* Properties of the order of the format validation *)

\* C26: validate_video_formats probes the clips in list order and takes the
\* first probed clip as baseline; when it raises ValueError the last clip
\* probed is the first whose (codec, width, height) differs from the baseline,
\* the error names that clip, its tuple and the baseline, and no later clip
\* has been probed; when it raises FileNotFoundError the missing clip is the
\* one after the last probed and has not been probed itself.
C26_ProbesInOrderUntilMismatch ==
    LET n == Len(v_probed) IN
    v_pc # "idle" =>
        /\ v_probed = [i \in 1..n |-> i]
        /\ (n > 0 /\ clips[1].probe_ok) => v_baseline = clips[1].info
        /\ v_pc = "ValueError" =>
              /\ n >= 2
              /\ clips[n].info # v_baseline
              /\ \A i \in 1..(n - 1) : clips[i].info = v_baseline
              /\ v_error = [path |-> n, has |-> clips[n].info,
                            expected |-> clips[1].info]
        /\ v_pc = "FileNotFoundError" =>
              /\ n < Len(clips)
              /\ ~clips[n + 1].exists
        /\ v_pc = "ok" => n = Len(clips)

C26_Witness ==
    /\ v_pc = "ValueError"
    /\ Len(clips) = 3
    /\ v_probed = <<1, 2>>
    /\ ~clips[3].exists
    /\ v_error.path = 2
    /\ v_error.has # v_error.expected

----------------------------------------------------------------------------
(* Properties of the timeline from time zero *)

\* C27: for cues in time order that do not overlap, the events written by
\* create_ass_file are contiguous from time zero: the first event starts at
\* 0:00:00.00, a transparent filler [0:00:00.00, firstCue.start) being the first
\* event exactly when the first cue is not written with start 0:00:00.00; each
\* event starts where the previous one ends; and the last event is the last
\* cue, ending at lastCue.end.  Cue times are taken as create_ass_file writes
\* them, in centiseconds.
C27_ContiguousFromZero ==
    (a_pc = "written" /\ CuesInOrder /\ Cues # <<>>) =>
        LET n == Len(ass_events) IN
        /\ n >= 1
        /\ ass_events[1].start = ass0
        /\ ass_events[1].filler <=> WrittenCues[1].start # ass0
        /\ ass_events[1].filler => ass_events[1].end = WrittenCues[1].start
        /\ \A k \in 1..(n - 1) : ass_events[k + 1].start = ass_events[k].end
        /\ ~ass_events[n].filler
        /\ ass_events[n].end = WrittenCues[Len(WrittenCues)].end

\* a first cue 0.005-1.0 s is written from 0:00:00.00 without a filler, and a
\* filler leads up to the second cue 2.005-4.0 s, written from 0:00:02.00
C27_Witness ==
    /\ a_pc = "written"
    /\ srt_blocks = <<CueBlock(5, 1000), CueBlock(2005, 4000)>>
    /\ Len(ass_events) = 3
    /\ ~ass_events[1].filler
    /\ ass_events[2].filler
    /\ ass_events[2].end = A_0_00_02

----------------------------------------------------------------------------
(* Properties of the splitters *)

zero == from_int(0)

\* duration > 0 and segment_length > 0
PositiveSplit == lt(zero, s_duration) /\ lt(zero, s_length)

\* C28 as stated: for duration > 0 and segment_length > 0 the tasks built by
\* split_video_fast tile [0, duration): there are ceil(duration /
\* segment_length) of them, task i starts at i * segment_length, each has a
\* positive length of at most segment_length, each starts where the one before
\* ends, the last ends at duration, and task i goes to part number i + 1.
C28_TasksTile ==
    (s_fast = "built" /\ PositiveSplit) =>
        LET n == Len(s_tasks) IN
        /\ n = ceil_div(s_duration, s_length)
        /\ \A k \in 1..n :
              /\ s_tasks[k].start = mul(k - 1, s_length)
              /\ lt(zero, s_tasks[k].length)
              /\ ~lt(s_length, s_tasks[k].length)
              /\ s_tasks[k].part = k
        /\ \A k \in 1..(n - 1) : s_tasks[k + 1].start = s_tasks[k].end
        /\ n >= 1 /\ s_tasks[n].end = s_duration

\* the [start, end) boundaries of a sequence of tasks or parts
Boundaries(seq) == [k \in 1..Len(seq) |-> Interval(seq[k].start, seq[k].end)]

\* when video_splitter has returned for a segment_length > 0 it has written
\* ceil(duration / segment_length) parts with the boundaries of the tasks of
\* split_video_fast
SamePartsAsTasks ==
    (s_pc = "done" /\ lt(zero, s_length)) =>
        /\ Len(s_parts) = ceil_div(s_duration, s_length)
        /\ Boundaries(s_parts)
             = Boundaries(split_video_fast_tasks(s_duration, s_length).tasks)

\* with segment_length <= 0 and duration > 0 video_splitter does not return
NeverReturnsForNonPositive ==
    (~lt(zero, s_length) /\ lt(zero, s_duration)) => s_pc # "done"

\* C29 as stated: for duration >= 0 and segment_length > 0 the loop of
\* video_splitter ends after writing exactly ceil(duration / segment_length)
\* parts with the [start, end) boundaries of the tasks of split_video_fast;
\* with segment_length <= 0 and duration > 0 it never ends.
C29_SequentialSplitLikeFast ==
    SamePartsAsTasks /\ NeverReturnsForNonPositive

====
